---- MODULE Spec2Model ----
(***************************************************************************)
(* Job Manager of discourse_lens_v6: job header, job items, the two        *)
(* workers of run_worker_mock, the pipeline-A runner thread, the           *)
(* pipeline-B branch, the /run/a bridge and the cached reads.              *)
(***************************************************************************)
EXTENDS Integers, Sequences, FiniteSets, TLC

VARIABLES job, items, posts, wk, last_stage_by_item, br, brun, now, outages,
          cache, dbVersion, rd, rt, lk, dsc, registry, eposts, en,
          promo, fp, aj, vis, pb, batch, cm, qe, cs, rec

jmVars == <<job, items, posts, wk, last_stage_by_item, br, brun>>
envVars == <<now, outages>>
readVars == <<cache, dbVersion, rd>>
retryVars == <<rt>>
lockVars == <<lk>>
discoveryVars == <<dsc>>
enrichVars == <<registry, eposts, en>>
toolVars == <<promo, fp, aj, vis, pb, batch, cm, qe, cs, rec>>
extVars == <<rt, lk, dsc, registry, eposts, en, promo, fp, aj, vis, pb, batch, cm, qe, cs, rec>>
vars == <<job, items, posts, wk, last_stage_by_item, br, brun, now, outages,
          cache, dbVersion, rd, rt, lk, dsc, registry, eposts, en,
          promo, fp, aj, vis, pb, batch, cm, qe, cs, rec>>

(* ---------------------------------------------------------------- bounds *)
MaxItems == 2
MaxNow == 64
CoarseStep == 61
MaxOutages == 1
MaxScheduled == 2
MaxVersion == 1
MaxReadNow == 3
MaxInvocations == 2
MaxPosts == 2
MaxRuns == 2

(* ----------------------------------------------------- program constants *)
LeaseTTL == 60
StaleAfter == 60
HeartbeatInterval == 4
CacheTTL == 2

NoTime == -1
NoItem == 0
NoPost == 0

Workers == {"worker-alpha", "worker-beta"}
BridgeWorker == "bridge-pipeline-a"

(* result_post_id values: null, a threads_posts id, f"mock_res:{item_id}",  *)
(* f"pipeline_a:{job_id}"                                                   *)
NullRef == [kind |-> "null", id |-> 0]
PostRef(p) == [kind |-> "post", id |-> p]
MockRef(i) == [kind |-> "mock_res", id |-> i]
BridgeRef == [kind |-> "pipeline_a", id |-> 0]

AbsentPost == [exists |-> FALSE, analysis_json |-> FALSE, full_report |-> FALSE]
BarePost == [exists |-> TRUE, analysis_json |-> FALSE, full_report |-> FALSE]
ReportPost == [exists |-> TRUE, analysis_json |-> FALSE, full_report |-> TRUE]
AnalysedPost == [exists |-> TRUE, analysis_json |-> TRUE, full_report |-> TRUE]

NewItem == [status |-> "pending", stage |-> "init", worker_id |-> "none",
            lease_expires_at |-> NoTime, result_post_id |-> NullRef,
            error_log |-> "none"]

NoCalls == [complete |-> 0, fail |-> 0, bump_success |-> 0, bump_failed |-> 0]

IdleWorker == [pc |-> "top", item |-> NoItem, current_stage |-> "init", post_id |-> NoPost,
               term |-> "none", err |-> "none", dying |-> FALSE,
               calls |-> NoCalls, analyst |-> "none", images |-> FALSE]

(* ------------------------------------------------------------ store RPCs *)
(* The SQL functions live in the store; they are modelled from section 4.6 *)

Min(S) == CHOOSE x \in S : \A y \in S : x <= y

Claimable(its, t) ==
    {i \in DOMAIN its :
        \/ its[i].status = "pending"
        \/ its[i].status = "processing" /\ its[i].lease_expires_at /= NoTime
                                        /\ its[i].lease_expires_at < t}

(* "oldest first": an item nobody wrote to since discovery is older than    *)
(* one whose lease ran out; among equals the lower row comes first.         *)
Oldest(its, S) ==
    LET P == {i \in S : its[i].status = "pending"}
    IN IF P /= {} THEN Min(P) ELSE Min(S)

claim_job_item(its, i, w, t, ttl) ==
    [its EXCEPT ![i] = [@ EXCEPT !.status = "processing", !.worker_id = w,
                                 !.lease_expires_at = t + ttl]]

set_job_item_stage(its, i, stage) ==
    [its EXCEPT ![i] = [@ EXCEPT !.stage = stage]]

complete_job_item(its, i, ref) ==
    [its EXCEPT ![i] = [@ EXCEPT !.status = "completed", !.stage = "completed",
                                 !.result_post_id = ref]]

fail_job_item(its, i, stage, prefix) ==
    [its EXCEPT ![i] = [@ EXCEPT !.status = "failed", !.stage = "failed",
                                 !.error_log = prefix]]

bump_job_counters(j, is_success, is_failed) ==
    [j EXCEPT !.processed_count = @ + 1,
              !.success_count = @ + (IF is_success THEN 1 ELSE 0),
              !.failed_count = @ + (IF is_failed THEN 1 ELSE 0)]

finalize_job_if_done(j) ==
    IF j.processed_count >= j.total_count
    THEN [j EXCEPT !.status = IF j.failed_count > 0 THEN "failed" ELSE "completed",
                   !.finished = TRUE]
    ELSE j

(* ------------------------------------------------- JobManager write helpers *)
set_job_heartbeat(j, t) == [j EXCEPT !.last_heartbeat_at = t]

mark_job_processing(j) == [j EXCEPT !.status = "processing"]

touch_item(its, i, stage) ==
    [its EXCEPT ![i] = [@ EXCEPT !.stage = IF stage /= "" THEN stage ELSE @]]

(* ------------------------------------------------------------------ Init *)
JobHeader(ptype, launcher, n) ==
    [pipeline_type |-> ptype, launcher |-> launcher, status |-> "processing",
     total_count |-> n, processed_count |-> 0, success_count |-> 0, failed_count |-> 0,
     last_heartbeat_at |-> NoTime, finished |-> FALSE, error_summary |-> FALSE]

IdleBridge == [pc |-> "idle", item |-> NoItem, dying |-> FALSE, hbDone |-> FALSE,
               calls |-> NoCalls, analyst |-> "none"]
IdleBRun == [pc |-> "idle", scheduled |-> 0, done |-> 0, success |-> 0, fail |-> 0,
             canonical |-> FALSE]

(* the cache keys of the reads: f"jobs_list:{limit}", f"job_items:{job_id}:{limit}" *)
CacheKeys == {"jobs_list:20", "job_items:100", "job_items:20"}

NoEntry == [time |-> NoTime, data |-> <<>>]

(* the last answer of a read endpoint: the route, the HTTP status, the     *)
(* payload, the degraded flag (header x-ops-degraded), and what held when  *)
(* the request ran: whether the store was reachable (up), whether a cached *)
(* value existed for its key (cached), the time (at).                      *)
ReadIdle == [kind |-> "none", http |-> 0, payload |-> <<>>, degraded |-> FALSE,
             up |-> TRUE, cached |-> FALSE, at |-> 0]

EnvInit == now = 0 /\ outages = 0

(* A call to the store either goes through (up) or fails after the retries *)
(* of _retry_db; `outages` counts the calls that failed.                    *)
StoreCall(up) ==
    /\ ~up => outages < MaxOutages
    /\ outages' = IF up THEN outages ELSE outages + 1

ReadsOff == cache = [k \in CacheKeys |-> NoEntry] /\ dbVersion = 0 /\ rd = ReadIdle

(* -------------------------------------------- run_worker_mock.worker_loop *)
IsA == job.pipeline_type = "A"
ByWorkers == job.launcher = "worker" /\ job.pipeline_type /= "B"

HasAnalysis(p) == p.exists /\ (p.analysis_json \/ p.full_report)

Called(w, what) == [wk[w].calls EXCEPT ![what] = @ + 1]

(* stage_cb of the worker loop: duplicate stages are suppressed through    *)
(* last_stage_by_item; a failing set_item_stage is logged and ignored.     *)
StageCbSuppressed(last, stage) == last = stage

StageCbItems(its, last, i, stage, up) ==
    IF StageCbSuppressed(last, stage) \/ ~up THEN its
    ELSE set_job_item_stage(its, i, stage)

StageCbCurrent(cur, last, stage) ==
    IF StageCbSuppressed(last, stage) THEN cur ELSE stage

(* while True: set_job_heartbeat; claim_next_item; if not item: break *)
WorkerTop(w, up) ==
    /\ ByWorkers
    /\ wk[w].pc = "top"
    /\ StoreCall(up)
    /\ IF ~up
       THEN /\ wk' = [wk EXCEPT ![w] = [IdleWorker EXCEPT !.pc = "dead"]]
            /\ UNCHANGED <<job, items>>
       ELSE /\ job' = set_job_heartbeat(job, now)
            /\ LET S == Claimable(items, now) IN
               IF S = {}
               THEN /\ wk' = [wk EXCEPT ![w] = [IdleWorker EXCEPT !.pc = "done"]]
                    /\ UNCHANGED items
               ELSE LET i == Oldest(items, S) IN
                    /\ items' = claim_job_item(items, i, w, now, LeaseTTL)
                    /\ wk' = [wk EXCEPT ![w] = [IdleWorker EXCEPT !.pc = "init", !.item = i]]
    /\ UNCHANGED <<posts, last_stage_by_item, br, brun, now, readVars, extVars>>

(* set_item_stage(item_id, "init") before the try block, then              *)
(* current_stage = "processing"; set_item_stage(item_id, "processing")      *)
(* inside it.                                                               *)
WorkerSetProcessing(w, up_init, up) ==
    /\ wk[w].pc = "init"
    /\ StoreCall(up_init /\ up)
    /\ ~up_init => up
    /\ IF ~up_init
       THEN /\ wk' = [wk EXCEPT ![w].pc = "dead"]
            /\ UNCHANGED items
       ELSE IF ~up
       THEN /\ wk' = [wk EXCEPT ![w].pc = "exc", ![w].current_stage = "processing"]
            /\ items' = set_job_item_stage(items, wk[w].item, "init")
       ELSE /\ items' = set_job_item_stage(set_job_item_stage(items, wk[w].item, "init"),
                                           wk[w].item, "processing")
            /\ wk' = [wk EXCEPT ![w].pc = IF IsA THEN "r_fetch" ELSE "m_vision",
                                ![w].current_stage = "processing"]
    /\ UNCHANGED <<job, posts, last_stage_by_item, br, brun, now, readVars, extVars>>

(* fail_item(item_id, stage, prefix, msg) of the worker loop *)
WorkerFailStage(cur, err) ==
    IF err = "ANALYSIS_MISSING" /\ cur \in {"analyst", "store"}
    THEN "analyst" ELSE cur

(* the worker record after a terminal call, or on its way to the handler    *)
(* of the try block when the call raised                                    *)
AfterTerminal(w, term, err, up) ==
    IF up
    THEN [wk[w] EXCEPT !.pc = "bump", !.term = term, !.err = err,
                       !.calls = Called(w, term)]
    ELSE [wk[w] EXCEPT !.pc = "exc", !.err = err]

ItemsAfterTerminal(its, w, term, err, ref, up) ==
    IF ~up THEN its
    ELSE IF term = "complete" THEN complete_job_item(its, wk[w].item, ref)
    ELSE fail_job_item(its, wk[w].item, WorkerFailStage(wk[w].current_stage, err), err)

(* except Exception as exc: the runner threw with current_stage = cur;      *)
(* fail_item(item_id, current_stage, "RUNNER_ERROR", ...)                   *)
RunnerThrew(w, its, cur, up) ==
    /\ items' = IF up THEN fail_job_item(its, wk[w].item, cur, "RUNNER_ERROR") ELSE its
    /\ wk' = [wk EXCEPT ![w] = [AfterTerminal(w, "fail", "RUNNER_ERROR", up) EXCEPT
                                    !.current_stage = cur, !.analyst = "failed",
                                    !.images = FALSE]]

(* run_pipeline_a_job up to the analyst: _stage("fetch"); run_pipeline(url) *)
(* upserts the post or raises; _stage("vision") is emitted for every post; *)
(* images = result.get("images") or [] decides whether the vision work     *)
(* runs, and that work is soft-fail.                                        *)
FetchOutcomes == {"ok", "raise"}

FetchPost(p) == IF p.exists THEN p ELSE BarePost

RunnerFetch(w, out, images, up_cb, up) ==
    /\ wk[w].pc = "r_fetch"
    /\ StoreCall(up_cb /\ up)
    /\ up_cb \/ up
    /\ out = "ok" => up
    /\ LET i == wk[w].item
           last == last_stage_by_item[i]
           fetched == StageCbItems(items, last, i, "fetch", up_cb)
           cur == StageCbCurrent(wk[w].current_stage, last, "fetch")
       IN IF out = "ok"
          THEN /\ posts' = [posts EXCEPT ![i] = FetchPost(@)]
               /\ items' = StageCbItems(fetched, "fetch", i, "vision", up_cb)
               /\ last_stage_by_item' = [last_stage_by_item EXCEPT ![i] = "vision"]
               /\ wk' = [wk EXCEPT ![w].pc = "r_analyst", ![w].current_stage = "vision",
                                   ![w].images = images]
          ELSE /\ RunnerThrew(w, fetched, cur, up)
               /\ last_stage_by_item' = [last_stage_by_item EXCEPT ![i] = "fetch"]
               /\ UNCHANGED posts
    /\ UNCHANGED <<job, br, brun, now, readVars, extVars>>

(* _stage("analyst"); generate_commercial_report and the update of the     *)
(* post row that follows; _stage("store"); return post_id:                  *)
(*  ok        the analysis is written (full_report, analysis_json)         *)
(*  exc_early an exception before the first update: _failure_dict          *)
(*  exc_late  an exception after full_report was written: _failure_dict    *)
(*  none      return None after full_report was written                    *)
(*  raise     the call itself, or the runner's update, raises              *)
AnalystOutcomes == {"ok", "exc_early", "exc_late", "none", "raise"}

AnalystReturnsDict(out) == out \in {"ok", "exc_early", "exc_late"}

AnalystPost(p, out) ==
    CASE out = "ok" -> [p EXCEPT !.analysis_json = TRUE, !.full_report = TRUE]
      [] out = "exc_early" -> [p EXCEPT !.analysis_json = FALSE]
      [] out = "exc_late" -> [p EXCEPT !.analysis_json = FALSE, !.full_report = TRUE]
      [] out = "none" -> [p EXCEPT !.full_report = TRUE]
      [] OTHER -> p

RunnerAnalyst(w, out, up_cb, up) ==
    /\ wk[w].pc = "r_analyst"
    /\ StoreCall(up_cb /\ up)
    /\ up_cb \/ up
    /\ AnalystReturnsDict(out) => up
    /\ LET i == wk[w].item
           last == last_stage_by_item[i]
           staged == StageCbItems(items, last, i, "analyst", up_cb)
           cur == StageCbCurrent(wk[w].current_stage, last, "analyst")
       IN /\ posts' = [posts EXCEPT ![i] = AnalystPost(@, out)]
          /\ IF AnalystReturnsDict(out)
             THEN /\ items' = StageCbItems(staged, "analyst", i, "store", up_cb)
                  /\ last_stage_by_item' = [last_stage_by_item EXCEPT ![i] = "store"]
                  /\ wk' = [wk EXCEPT ![w].pc = "check", ![w].post_id = i,
                                      ![w].analyst = IF out = "ok" THEN "ok" ELSE "failed",
                                      ![w].current_stage = "store",
                                      ![w].images = FALSE]
             ELSE /\ RunnerThrew(w, staged, cur, up)
                  /\ last_stage_by_item' = [last_stage_by_item EXCEPT ![i] = "analyst"]
    /\ UNCHANGED <<job, br, brun, now, readVars, extVars>>

(* if not post_id: _recover_post_id (the runner returns an id or raises);   *)
(* post_row = _table_select_single("threads_posts", post_id); has_analysis; *)
(* then complete_item(item_id, post_id) or fail_item(..., ANALYSIS_MISSING) *)
PostRowHasAnalysis(p, up) == up /\ HasAnalysis(posts[p])

WorkerCheckPost(w, up_select, up) ==
    /\ wk[w].pc = "check"
    /\ StoreCall(up_select /\ up)
    /\ up_select \/ up
    /\ LET term == IF wk[w].post_id /= NoPost /\ PostRowHasAnalysis(wk[w].post_id, up_select)
                   THEN "complete" ELSE "fail"
           err == IF wk[w].post_id = NoPost THEN "POST_ID_NOT_FOUND"
                  ELSE IF term = "fail" THEN "ANALYSIS_MISSING" ELSE "none"
       IN /\ items' = ItemsAfterTerminal(items, w, term, err, PostRef(wk[w].post_id), up)
          /\ wk' = [wk EXCEPT ![w] = AfterTerminal(w, term, err, up)]
    /\ UNCHANGED <<job, posts, last_stage_by_item, br, brun, now, readVars, extVars>>

(* the mock path of the other pipeline types *)
MockVision(w, up) ==
    /\ wk[w].pc = "m_vision"
    /\ StoreCall(up)
    /\ IF up
       THEN /\ items' = set_job_item_stage(items, wk[w].item, "vision")
            /\ wk' = [wk EXCEPT ![w].pc = "m_analyst"]
       ELSE /\ wk' = [wk EXCEPT ![w].pc = "exc"]
            /\ UNCHANGED items
    /\ UNCHANGED <<job, posts, last_stage_by_item, br, brun, now, readVars, extVars>>

(* set_item_stage(item_id, "analyst"); complete_item(item_id, mock_res) *)
MockAnalyst(w, up_stage, up) ==
    /\ wk[w].pc = "m_analyst"
    /\ StoreCall(up_stage /\ up)
    /\ ~up_stage => up
    /\ IF ~up_stage
       THEN /\ wk' = [wk EXCEPT ![w].pc = "exc"]
            /\ UNCHANGED items
       ELSE /\ items' = ItemsAfterTerminal(set_job_item_stage(items, wk[w].item, "analyst"),
                                           w, "complete", "none", MockRef(wk[w].item), up)
            /\ wk' = [wk EXCEPT ![w] = AfterTerminal(w, "complete", "none", up)]
    /\ UNCHANGED <<job, posts, last_stage_by_item, br, brun, now, readVars, extVars>>

(* _rpc("bump_job_counters", ...) after the terminal call *)
WorkerBump(w, up) ==
    /\ wk[w].pc = "bump"
    /\ StoreCall(up)
    /\ IF up
       THEN /\ job' = bump_job_counters(job, wk[w].term = "complete", wk[w].term = "fail")
            /\ wk' = [wk EXCEPT ![w].pc = "fin",
                                ![w].calls = Called(w, IF wk[w].term = "complete"
                                                       THEN "bump_success" ELSE "bump_failed")]
       ELSE /\ wk' = [wk EXCEPT ![w].pc = "exc"]
            /\ UNCHANGED job
    /\ UNCHANGED <<items, posts, last_stage_by_item, br, brun, now, readVars, extVars>>

(* except Exception: fail_item(..., "RUNTIME_ERR", ...); bump_job_counters; *)
(* an exception raised here leaves the handler after the finally block.     *)
WorkerExceptFail(w, up) ==
    /\ wk[w].pc = "exc"
    /\ StoreCall(up)
    /\ IF up
       THEN /\ items' = fail_job_item(items, wk[w].item, wk[w].current_stage, "RUNTIME_ERR")
            /\ wk' = [wk EXCEPT ![w].pc = "exc_bump", ![w].calls = Called(w, "fail")]
       ELSE /\ wk' = [wk EXCEPT ![w].pc = "fin", ![w].dying = TRUE]
            /\ UNCHANGED items
    /\ UNCHANGED <<job, posts, last_stage_by_item, br, brun, now, readVars, extVars>>

WorkerExceptBump(w, up) ==
    /\ wk[w].pc = "exc_bump"
    /\ StoreCall(up)
    /\ IF up
       THEN /\ job' = bump_job_counters(job, FALSE, TRUE)
            /\ wk' = [wk EXCEPT ![w].pc = "fin", ![w].calls = Called(w, "bump_failed")]
       ELSE /\ wk' = [wk EXCEPT ![w].pc = "fin", ![w].dying = TRUE]
            /\ UNCHANGED job
    /\ UNCHANGED <<items, posts, last_stage_by_item, br, brun, now, readVars, extVars>>

(* finally: set_job_heartbeat; _rpc("finalize_job_if_done"); the locals of  *)
(* the iteration go out of scope. An exception that left the handler, or   *)
(* one raised here, ends the coroutine.                                     *)
WorkerLeaves(w, pc) == [IdleWorker EXCEPT !.pc = pc, !.item = wk[w].item,
                                          !.calls = wk[w].calls]

(* a finally block that refreshes the heartbeat and forgets to finalize *)
WorkerFinallyNoFinalize(w, up) ==
    /\ wk[w].pc = "fin"
    /\ StoreCall(up)
    /\ IF up
       THEN /\ job' = set_job_heartbeat(job, now)
            /\ wk' = [wk EXCEPT ![w] = IF wk[w].dying THEN WorkerLeaves(w, "dead")
                                       ELSE IdleWorker]
       ELSE /\ wk' = [wk EXCEPT ![w] = WorkerLeaves(w, "dead")]
            /\ UNCHANGED job
    /\ UNCHANGED <<items, posts, last_stage_by_item, br, brun, now, readVars, extVars>>

WorkerFinally(w, up) ==
    /\ wk[w].pc = "fin"
    /\ StoreCall(up)
    /\ IF up
       THEN /\ job' = finalize_job_if_done(set_job_heartbeat(job, now))
            /\ wk' = [wk EXCEPT ![w] = IF wk[w].dying THEN WorkerLeaves(w, "dead")
                                       ELSE IdleWorker]
       ELSE /\ wk' = [wk EXCEPT ![w] = WorkerLeaves(w, "dead")]
            /\ UNCHANGED job
    /\ UNCHANGED <<items, posts, last_stage_by_item, br, brun, now, readVars, extVars>>

(* ------------------------------------- run_worker_mock, pipeline-B branch *)
(* mark_job_processing; set_job_heartbeat (both before the try block) *)
BStart(up) ==
    /\ StoreCall(up)
    /\ brun.pc = "b_start"
    /\ IF up
       THEN /\ job' = set_job_heartbeat(mark_job_processing(job), now)
            /\ brun' = [brun EXCEPT !.pc = "b_run"]
       ELSE /\ brun' = [brun EXCEPT !.pc = "dead"]
            /\ UNCHANGED job
    /\ UNCHANGED <<items, posts, wk, last_stage_by_item, br, now, readVars, extVars>>

(* _progressive_job_item_update(job_id, url, stage, status="processing"):   *)
(* update the rows of the target, insert a row when none matched;           *)
(* best-effort, a store error is logged and ignored.                        *)
progressive_job_item_update(its, k, matches, stage, ref, err) ==
    IF matches
    THEN [its EXCEPT ![k] = [@ EXCEPT !.stage = stage, !.status = "processing",
                                      !.result_post_id = IF ref = NullRef THEN @ ELSE ref,
                                      !.error_log = IF err = "none" THEN @ ELSE err]]
    ELSE its @@ (Min({n \in 1..(Cardinality(DOMAIN its) + 1) : n \notin DOMAIN its}) :>
                 [NewItem EXCEPT !.stage = stage, !.status = "processing",
                                 !.result_post_id = ref, !.error_log = err])

(* process_pipeline_b_backend.run_one for the next scheduled url *)
BRunOne(ok, up) ==
    /\ StoreCall(up)
    /\ brun.pc = "b_run"
    /\ brun.done < brun.scheduled
    /\ LET k == brun.done + 1
           matches == brun.canonical /\ k \in DOMAIN items
       IN /\ items' = IF ~up THEN items
                      ELSE IF ok
                      THEN progressive_job_item_update(items, k, matches, "completed_post",
                                                       PostRef(k), "none")
                      ELSE progressive_job_item_update(items, k, matches, "failed_post",
                                                       NullRef, "run_one")
          /\ brun' = [brun EXCEPT !.done = k,
                                  !.success = @ + (IF ok THEN 1 ELSE 0),
                                  !.fail = @ + (IF ok THEN 0 ELSE 1)]
    /\ UNCHANGED <<job, posts, wk, last_stage_by_item, br, now, readVars, extVars>>

(* the header update at the end of the batch run *)
pipeline_b_header(j, success, fail) ==
    [j EXCEPT !.status = IF fail = 0 THEN "completed" ELSE "failed",
              !.processed_count = success + fail,
              !.success_count = success,
              !.failed_count = fail]

BFinish(up) ==
    /\ StoreCall(up)
    /\ brun.pc = "b_run"
    /\ brun.done = brun.scheduled
    /\ IF up
       THEN /\ job' = pipeline_b_header(job, brun.success, brun.fail)
            /\ brun' = [brun EXCEPT !.pc = "done"]
       ELSE /\ brun' = [brun EXCEPT !.pc = "b_exc"]
            /\ UNCHANGED job
    /\ UNCHANGED <<items, posts, wk, last_stage_by_item, br, now, readVars, extVars>>

(* process_pipeline_b_backend raises (discovery, scheduling) *)
BRaise ==
    /\ brun.pc = "b_run"
    /\ brun.done = 0
    /\ brun' = [brun EXCEPT !.pc = "b_exc"]
    /\ UNCHANGED <<job, items, posts, wk, last_stage_by_item, br, envVars, readVars, extVars>>

(* except Exception: status = failed, error_summary *)
pipeline_b_failed(j) == [j EXCEPT !.status = "failed", !.error_summary = TRUE]

BExcept(up) ==
    /\ StoreCall(up)
    /\ brun.pc = "b_exc"
    /\ IF up
       THEN /\ job' = pipeline_b_failed(job)
            /\ brun' = [brun EXCEPT !.pc = "done"]
       ELSE /\ brun' = [brun EXCEPT !.pc = "dead"]
            /\ UNCHANGED job
    /\ UNCHANGED <<items, posts, wk, last_stage_by_item, br, now, readVars, extVars>>

(* ------------------------------------------------ run_pipeline_a_with_ops *)
BridgeCalled(what) == [br.calls EXCEPT ![what] = @ + 1]

(* the heartbeat task exists from create_task, just before the run, until   *)
(* the finally block stops it                                               *)
HeartbeatAlive ==
    \/ br.pc \in {"run", "st_store", "complete", "bump"}
    \/ br.pc \in {"exc", "exc_bump"} /\ br.analyst /= "none"

(* claimed_item = await manager.claim_next_item(job_id, worker_id) *)
BridgeClaim(up) ==
    /\ StoreCall(up)
    /\ br.pc = "claim"
    /\ IF up /\ Claimable(items, now) /= {}
       THEN LET i == Oldest(items, Claimable(items, now)) IN
            /\ items' = claim_job_item(items, i, BridgeWorker, now, LeaseTTL)
            /\ br' = [br EXCEPT !.pc = "st_fetch", !.item = i]
       ELSE /\ br' = [br EXCEPT !.pc = "done"]
            /\ UNCHANGED items
    /\ UNCHANGED <<job, posts, wk, last_stage_by_item, brun, now, readVars, extVars>>

(* set_item_stage(item_id, "fetch"); set_item_stage(item_id, "analyst") *)
BridgeStage(at, stage, next, up) ==
    /\ StoreCall(up)
    /\ br.pc = at
    /\ IF up
       THEN /\ items' = set_job_item_stage(items, br.item, stage)
            /\ br' = [br EXCEPT !.pc = next]
       ELSE /\ br' = [br EXCEPT !.pc = "exc"]
            /\ UNCHANGED items
    /\ UNCHANGED <<job, posts, wk, last_stage_by_item, brun, now, readVars, extVars>>

BridgeStageFetch(up) == BridgeStage("st_fetch", "fetch", "st_analyst", up)
BridgeStageAnalyst(up) == BridgeStage("st_analyst", "analyst", "run", up)
BridgeStageStore(up) == BridgeStage("st_store", "store", "complete", up)

(* heartbeat(): touch_item(item_id, stage="analyst"); set_job_heartbeat;    *)
(* then wait heartbeat_interval seconds. Errors are logged and ignored.     *)
BridgeHeartbeat(up) ==
    /\ StoreCall(up)
    /\ HeartbeatAlive
    /\ ~br.hbDone
    /\ br' = [br EXCEPT !.hbDone = TRUE]
    /\ IF up
       THEN /\ items' = touch_item(items, br.item, "analyst")
            /\ job' = set_job_heartbeat(job, now)
       ELSE UNCHANGED <<items, job>>
    /\ UNCHANGED <<posts, wk, last_stage_by_item, brun, now, readVars, extVars>>

(* asyncio.to_thread(run_pipeline_a_job, job_id, url): no item_id, no stage_cb *)
BridgeOutcomes == {"ok", "exc_early", "exc_late", "none", "raise"}

BridgeRun(out) ==
    /\ br.pc = "run"
    /\ posts' = IF out = "raise" THEN posts
                ELSE [posts EXCEPT ![br.item] = AnalystPost(FetchPost(@), out)]
    /\ br' = [br EXCEPT !.pc = IF AnalystReturnsDict(out) THEN "st_store" ELSE "exc",
                        !.analyst = IF out = "ok" THEN "ok" ELSE "failed"]
    /\ UNCHANGED <<job, items, wk, last_stage_by_item, brun, envVars, readVars, extVars>>

(* complete_item(item_id, result_post_id=f"pipeline_a:{job_id}") *)
BridgeComplete(up) ==
    /\ StoreCall(up)
    /\ br.pc = "complete"
    /\ IF up
       THEN /\ items' = complete_job_item(items, br.item, BridgeRef)
            /\ br' = [br EXCEPT !.pc = "bump", !.calls = BridgeCalled("complete")]
       ELSE /\ br' = [br EXCEPT !.pc = "exc"]
            /\ UNCHANGED items
    /\ UNCHANGED <<job, posts, wk, last_stage_by_item, brun, now, readVars, extVars>>

BridgeBump(up) ==
    /\ StoreCall(up)
    /\ br.pc = "bump"
    /\ IF up
       THEN /\ job' = bump_job_counters(job, TRUE, FALSE)
            /\ br' = [br EXCEPT !.pc = "fin", !.calls = BridgeCalled("bump_success")]
       ELSE /\ br' = [br EXCEPT !.pc = "exc"]
            /\ UNCHANGED job
    /\ UNCHANGED <<items, posts, wk, last_stage_by_item, brun, now, readVars, extVars>>

(* except Exception: fail_item(item_id, "analyst", "PIPELINE_ERROR"); bump *)
BridgeExceptFail(up) ==
    /\ StoreCall(up)
    /\ br.pc = "exc"
    /\ IF up
       THEN /\ items' = fail_job_item(items, br.item, "analyst", "PIPELINE_ERROR")
            /\ br' = [br EXCEPT !.pc = "exc_bump", !.calls = BridgeCalled("fail")]
       ELSE /\ br' = [br EXCEPT !.pc = "fin", !.dying = TRUE]
            /\ UNCHANGED items
    /\ UNCHANGED <<job, posts, wk, last_stage_by_item, brun, now, readVars, extVars>>

BridgeExceptBump(up) ==
    /\ StoreCall(up)
    /\ br.pc = "exc_bump"
    /\ IF up
       THEN /\ job' = bump_job_counters(job, FALSE, TRUE)
            /\ br' = [br EXCEPT !.pc = "fin", !.calls = BridgeCalled("bump_failed")]
       ELSE /\ br' = [br EXCEPT !.pc = "fin", !.dying = TRUE]
            /\ UNCHANGED job
    /\ UNCHANGED <<items, posts, wk, last_stage_by_item, brun, now, readVars, extVars>>

(* finally: stop the heartbeat; _rpc("finalize_job_if_done") *)
BridgeFinally(up) ==
    /\ StoreCall(up)
    /\ br.pc = "fin"
    /\ IF up
       THEN /\ job' = finalize_job_if_done(job)
            /\ br' = [br EXCEPT !.pc = IF br.dying THEN "dead" ELSE "done"]
       ELSE /\ br' = [br EXCEPT !.pc = "dead"]
            /\ UNCHANGED job
    /\ UNCHANGED <<items, posts, wk, last_stage_by_item, brun, now, readVars, extVars>>

(* ------------------------------------------------------- cached reads *)
cache_get(c, key) == c[key]

cache_set(c, key, t, data) == [c EXCEPT ![key] = [time |-> t, data |-> data]]

KeyPrefix(k) == IF k = "jobs_list:20" THEN "jobs_list:" ELSE "job_items:"

cache_del_prefix(c, prefix) ==
    [k \in CacheKeys |-> IF KeyPrefix(k) = prefix THEN NoEntry ELSE c[k]]

IsCached(entry) == entry.time /= NoTime

(* _cached_call(key, ttl, func): rows is what the store answers when it is *)
(* reachable; the result is (data, degraded) and the cache afterwards.     *)
(* a _cached_call that does not fall back to the cached value *)
cached_call_without_fallback(c, key, ttl, t, up, rows) ==
    LET cached == cache_get(c, key) IN
    IF IsCached(cached) /\ t - cached.time < ttl
    THEN [data |-> cached.data, degraded |-> FALSE, cache |-> c]
    ELSE IF ~up
    THEN [data |-> <<>>, degraded |-> TRUE, cache |-> c]
    ELSE [data |-> rows, degraded |-> FALSE, cache |-> cache_set(c, key, t, rows)]

cached_call(c, key, ttl, t, up, rows) ==
    LET cached == cache_get(c, key) IN
    IF IsCached(cached) /\ t - cached.time < ttl
    THEN [data |-> cached.data, degraded |-> FALSE, cache |-> c]
    ELSE IF ~up
    THEN IF IsCached(cached)
         THEN [data |-> cached.data, degraded |-> TRUE, cache |-> c]
         ELSE [data |-> <<>>, degraded |-> TRUE, cache |-> c]
    ELSE [data |-> rows, degraded |-> FALSE, cache |-> cache_set(c, key, t, rows)]

(* the rows of job_batches / job_items as the store holds them *)
StoreRows(v) == <<v>>

get_job_list(c, t, up) == cached_call(c, "jobs_list:20", CacheTTL, t, up, StoreRows(dbVersion))

get_job_items(c, limit_key, t, up) ==
    cached_call(c, limit_key, CacheTTL, t, up, StoreRows(dbVersion))

IsSuccess(it) == it.status = "completed" \/ it.stage = "completed"
IsFailed(it) == it.status = "failed" \/ it.stage = "failed"

SuccessCount(its) == Cardinality({i \in DOMAIN its : IsSuccess(its[i])})
FailedCount(its) == Cardinality({i \in DOMAIN its : IsFailed(its[i])})

(* JobManager.get_job_summary once the header was read: the counters come  *)
(* from the item rows, the heartbeat from the header.                       *)
SummaryStatus(total, processed, failed, hb, t) ==
    IF hb /= NoTime /\ total > 0 /\ processed < total /\ t - hb > StaleAfter
    THEN "stale"
    ELSE IF total > 0 /\ processed >= total
    THEN IF failed > 0 THEN "failed" ELSE "completed"
    ELSE "processing"

get_job_summary(header, its, t, up_items) ==
    LET total == IF up_items THEN Cardinality(DOMAIN its) ELSE 0
        success == IF up_items THEN SuccessCount(its) ELSE 0
        failed == IF up_items THEN FailedCount(its) ELSE 0
    IN [status |-> SummaryStatus(total, success + failed, failed,
                                 header.last_heartbeat_at, t),
        total_count |-> total, processed_count |-> success + failed,
        success_count |-> success, failed_count |-> failed,
        degraded |-> ~up_items]

(* ------------------------------------------------- routers/jobs.py reads *)
Answer(kind, http, payload, degraded, up, cached) ==
    [kind |-> kind, http |-> http, payload |-> payload, degraded |-> degraded,
     up |-> up, cached |-> cached, at |-> now]

(* GET /api/jobs/ *)
list_jobs(up) ==
    /\ LET r == get_job_list(cache, now, up) IN
       /\ cache' = r.cache
       /\ rd' = Answer("list", 200, r.data, r.degraded, up,
                       IsCached(cache["jobs_list:20"]))
    /\ UNCHANGED <<jmVars, envVars, dbVersion, extVars>>

(* GET /api/jobs/{job_id}/items *)
get_job_items_only(up) ==
    /\ LET r == get_job_items(cache, "job_items:100", now, up) IN
       /\ cache' = r.cache
       /\ rd' = Answer("items", 200, r.data, r.degraded, up,
                       IsCached(cache["job_items:100"]))
    /\ UNCHANGED <<jmVars, envVars, dbVersion, extVars>>

(* GET /api/jobs/{job_id}: the header is read without the cache; the       *)
(* degraded flag of the items is dropped.                                   *)
get_job_status(up_header, up) ==
    /\ ~up_header => up
    /\ IF ~up_header
       THEN /\ rd' = Answer("detail", 404, <<>>, FALSE, FALSE, FALSE)
            /\ UNCHANGED cache
       ELSE LET r == get_job_items(cache, "job_items:20", now, up) IN
            /\ cache' = r.cache
            /\ rd' = Answer("detail", 200, StoreRows(dbVersion) \o r.data, FALSE, up,
                            IsCached(cache["job_items:20"]))
    /\ UNCHANGED <<jmVars, envVars, dbVersion, extVars>>

(* GET /api/jobs/{job_id}/summary *)
get_job_summary_route(up_header, up) ==
    /\ ~up_header => up
    /\ IF ~up_header
       THEN rd' = Answer("summary", 404, <<>>, FALSE, FALSE, FALSE)
       ELSE LET summary == get_job_summary(job, items, now, up) IN
            rd' = Answer("summary", 200, <<summary>>, summary.degraded, up, FALSE)
    /\ UNCHANGED <<jmVars, envVars, cache, dbVersion, extVars>>

(* _table_insert: a new row of job_batches or job_items drops the cached   *)
(* lists of that table.                                                     *)
table_insert(c, table) ==
    IF table = "job_batches" THEN cache_del_prefix(c, "jobs_list:")
    ELSE IF table = "job_items" THEN cache_del_prefix(c, "job_items:")
    ELSE c

InsertRow(table) ==
    /\ dbVersion < MaxVersion
    /\ dbVersion' = dbVersion + 1
    /\ cache' = table_insert(cache, table)
    /\ UNCHANGED <<jmVars, envVars, rd, extVars>>

(* the workers change rows of the store; no cache entry is dropped *)
StoreUpdate ==
    /\ dbVersion < MaxVersion
    /\ dbVersion' = dbVersion + 1
    /\ UNCHANGED <<jmVars, envVars, cache, rd, extVars>>

(* one second passes between requests *)
ReadTick ==
    /\ now < MaxReadNow
    /\ now' = now + 1
    /\ UNCHANGED <<jmVars, outages, readVars, extVars>>

(* ----------------------------------------------------------- environment *)
(* CoarseStep seconds pass while a pipeline run is under way (the runner    *)
(* thread of a worker, the bridge's run, the batch run) or after the        *)
(* coroutines have ended; a store call is short against the lease.          *)
(* The worker loop has no timer of its own. While the bridge's heartbeat    *)
(* task is alive it has started (hbDone) and runs every heartbeat_interval  *)
(* seconds, so that its last round lies at most heartbeat_interval seconds  *)
(* back when the step ends.                                                 *)
Running ==
    \/ \E w \in Workers : wk[w].pc \in {"r_fetch", "r_analyst"}
    \/ br.pc = "run"
    \/ brun.pc = "b_run"

Ended ==
    /\ \A w \in Workers : wk[w].pc \in {"off", "done", "dead"}
    /\ br.pc \in {"idle", "done", "dead"}
    /\ brun.pc \in {"idle", "done", "dead"}

Tick ==
    /\ now + CoarseStep <= MaxNow
    /\ Running \/ Ended
    /\ now' = now + CoarseStep
    /\ IF HeartbeatAlive
       THEN /\ br.hbDone
            /\ items' = touch_item(items, br.item, "analyst")
            /\ job' = set_job_heartbeat(job, now' - HeartbeatInterval)
       ELSE UNCHANGED <<items, job>>
    /\ UNCHANGED <<posts, wk, last_stage_by_item, br, brun, outages, readVars, extVars>>

(* ------------------------------------- state of the other components *)
(* _retry_db and the helper that called it: the position in the loop, the  *)
(* loop index i, the outcome of each call of func() so far (log), the      *)
(* backoff slept so far in tenths of a second, the value _retry_db gave,   *)
(* what the last finished helper call gave its caller, and how many helper *)
(* calls have finished.                                                     *)
NoInvocation == [helper |-> "none", cached |-> FALSE, log |-> <<>>, slept |-> 0,
                 result |-> "none", outcome |-> "none", applied |-> 0]

RetryIdle == [pc |-> "idle", helper |-> "none", cached |-> FALSE, i |-> 0, log |-> <<>>,
              slept |-> 0, result |-> "none", last |-> NoInvocation, done |-> 0,
              applied |-> 0]

(* the process-wide asyncio.Lock (its holder) and, for each coroutine, its *)
(* position, the attempt of _retry_db it is in, and the store calls it has *)
(* left to make                                                             *)
LockAgents == Workers \cup {"reader"}

LockIdle == [holder |-> "none",
             pc |-> [a \in LockAgents |-> "loop"],
             i |-> [a \in LockAgents |-> 0],
             what |-> [a \in LockAgents |-> "none"]]

(* start_discovery: the input_config of the job, the job_items inserted,   *)
(* the job header, the returned count                                       *)
(* a value of input_config: a string (a sequence of characters), a list   *)
(* of values, a number, or no value                                         *)
None == [kind |-> "none", s |-> <<>>, l |-> <<>>]
Number == [kind |-> "int", s |-> <<>>, l |-> <<>>]
Str(s) == [kind |-> "str", s |-> s, l |-> <<>>]
List(l) == [kind |-> "list", s |-> <<>>, l |-> l]

NoConfig == [url |-> None, target |-> None, targets |-> None, lines |-> None,
             keywords |-> None]

DiscoveryIdle == [pc |-> "idle", config |-> NoConfig, inserted |-> <<>>,
                  status |-> "discovering", total_count |-> 0, ret |-> 0,
                  update_failed |-> FALSE]

(* the phenomenon enricher *)
Fingerprints == {"f1", "f2", "f3"}

(* str(uuid.uuid5(NAMESPACE_UUID, fingerprint)) *)
uuid5(fingerprint) == <<"uuid5", fingerprint>>

PhenomenonIds == {uuid5(f) : f \in Fingerprints}

NoPhenomenon == <<"none", "none">>

NoRow == [exists |-> FALSE, status |-> "none", occurrence_count |-> 0, embedding |-> "none"]

EnrichIdle == [pc |-> "idle", post |-> NoPost, candidates |-> <<>>, raised |-> FALSE,
               match |-> [phenomenon_id |-> NoPhenomenon, status |-> "none", confidence |-> 0],
               order |-> <<>>, returned |-> NoPost]

NewPost(f) == [fingerprint |-> f, phenomenon_id |-> NoPhenomenon, phenomenon_status |-> "none",
               enrichment_status |-> "null", enrichment_last_error |-> FALSE,
               enrichment_retry_count |-> 0, increment_failed |-> FALSE,
               dim_mismatch |-> FALSE,
               analysis_phenomenon |-> [id |-> NoPhenomenon, status |-> "none"],
               patched |-> FALSE, item |-> "none"]

RetryOff == rt = RetryIdle
LockOff == lk = LockIdle
DiscoveryOff == dsc = DiscoveryIdle
EnrichOff ==
    /\ registry = [id \in PhenomenonIds |-> NoRow]
    /\ eposts = [p \in {} |-> NewPost("f1")]
    /\ en = EnrichIdle

(* a component that takes no part in the behaviours of a specification *)
Unused == [pc |-> "off"]
PromoteOff == promo = Unused
FingerprintOff == fp = Unused
AnalysisOff == aj = Unused
VisionOff == vis = Unused
PipelineBOff == pb = Unused
BatchOff == batch = Unused
CommentsOff == cm = Unused
BoundedCacheOff == cs = Unused
RecoveryOff == rec = Unused
QuantOff == qe = Unused
ToolsOff ==
    /\ PromoteOff /\ FingerprintOff /\ AnalysisOff /\ VisionOff /\ PipelineBOff /\ BatchOff
    /\ CommentsOff /\ QuantOff /\ BoundedCacheOff /\ RecoveryOff

(* ------------------------------------------------------------------ Init *)
ItemIds(n) == 1..n

(* The state after create_job and start_discovery (or the /run/a handler):  *)
(* n pending items, total_count = n, status processing.                     *)
InitJob(ptype, launcher, n) ==
    /\ job = JobHeader(ptype, launcher, n)
    /\ items = [i \in ItemIds(n) |-> NewItem]
    /\ last_stage_by_item = [i \in ItemIds(n) |-> "none"]
    /\ wk = [w \in Workers |-> IF launcher = "worker" /\ ptype /= "B"
                               THEN IdleWorker ELSE [IdleWorker EXCEPT !.pc = "off"]]
    /\ br = IF launcher = "bridge" THEN [IdleBridge EXCEPT !.pc = "claim"] ELSE IdleBridge

PostInits == {AbsentPost, ReportPost, AnalysedPost}

Init ==
    /\ EnvInit
    /\ ReadsOff
    /\ RetryOff /\ LockOff /\ DiscoveryOff /\ EnrichOff /\ ToolsOff
    /\ \E ptype \in {"A", "B", "C"}, launcher \in {"worker", "bridge"}, n \in 1..MaxItems :
        /\ launcher = "bridge" => ptype = "A" /\ n = 1
        /\ InitJob(ptype, launcher, n)
        /\ IF ptype = "A"
           THEN \E p \in PostInits : posts = [i \in ItemIds(n) |-> p]
           ELSE posts = [i \in ItemIds(n) |-> AbsentPost]
        /\ IF ptype = "B"
           THEN \E k \in 0..MaxScheduled, c \in BOOLEAN :
                    brun = [IdleBRun EXCEPT !.pc = "b_start", !.scheduled = k, !.canonical = c]
           ELSE brun = IdleBRun

Next ==
    \/ \E w \in Workers, up \in BOOLEAN : WorkerTop(w, up)
    \/ \E w \in Workers, up_init, up \in BOOLEAN : WorkerSetProcessing(w, up_init, up)
    \/ \E w \in Workers, out \in FetchOutcomes, images, up_cb, up \in BOOLEAN :
            RunnerFetch(w, out, images, up_cb, up)
    \/ \E w \in Workers, out \in AnalystOutcomes, up_cb, up \in BOOLEAN :
            RunnerAnalyst(w, out, up_cb, up)
    \/ \E w \in Workers, up_select, up \in BOOLEAN : WorkerCheckPost(w, up_select, up)
    \/ \E w \in Workers, up \in BOOLEAN : MockVision(w, up)
    \/ \E w \in Workers, up_stage, up \in BOOLEAN : MockAnalyst(w, up_stage, up)
    \/ \E w \in Workers, up \in BOOLEAN : WorkerBump(w, up)
    \/ \E w \in Workers, up \in BOOLEAN : WorkerExceptFail(w, up)
    \/ \E w \in Workers, up \in BOOLEAN : WorkerExceptBump(w, up)
    \/ \E w \in Workers, up \in BOOLEAN : WorkerFinally(w, up)
    \/ \E up \in BOOLEAN : BStart(up)
    \/ \E ok, up \in BOOLEAN : BRunOne(ok, up)
    \/ \E up \in BOOLEAN : BFinish(up)
    \/ BRaise
    \/ \E up \in BOOLEAN : BExcept(up)
    \/ \E up \in BOOLEAN : BridgeClaim(up)
    \/ \E up \in BOOLEAN : BridgeStageFetch(up)
    \/ \E up \in BOOLEAN : BridgeStageAnalyst(up)
    \/ \E out \in BridgeOutcomes : BridgeRun(out)
    \/ \E up \in BOOLEAN : BridgeStageStore(up)
    \/ \E up \in BOOLEAN : BridgeHeartbeat(up)
    \/ \E up \in BOOLEAN : BridgeComplete(up)
    \/ \E up \in BOOLEAN : BridgeBump(up)
    \/ \E up \in BOOLEAN : BridgeExceptFail(up)
    \/ \E up \in BOOLEAN : BridgeExceptBump(up)
    \/ \E up \in BOOLEAN : BridgeFinally(up)
    \/ Tick

Spec == Init /\ [][Next]_vars

(* ---------------------------------------------------- the read endpoints *)
(* Reads of one existing job whose rows the workers change meanwhile.       *)
ReadInit ==
    /\ EnvInit
    /\ ReadsOff
    /\ RetryOff /\ LockOff /\ DiscoveryOff /\ EnrichOff /\ ToolsOff
    /\ InitJob("A", "worker", 1)
    /\ posts = [i \in ItemIds(1) |-> AbsentPost]
    /\ brun = IdleBRun

ReadNext ==
    \/ \E up \in BOOLEAN : list_jobs(up)
    \/ \E up \in BOOLEAN : get_job_items_only(up)
    \/ \E up_header, up \in BOOLEAN : get_job_status(up_header, up)
    \/ \E up_header, up \in BOOLEAN : get_job_summary_route(up_header, up)
    \/ \E table \in {"job_batches", "job_items"} : InsertRow(table)
    \/ StoreUpdate
    \/ ReadTick

ReadSpec == ReadInit /\ [][ReadNext]_vars

(* ------------------------------------------- the healthy pipeline-A job *)
(* Fetch, analyst and store succeed, every store call goes through, and    *)
(* each worker coroutine is scheduled again and again by the event loop.    *)
HealthyInit ==
    /\ EnvInit
    /\ ReadsOff
    /\ RetryOff /\ LockOff /\ DiscoveryOff /\ EnrichOff /\ ToolsOff
    /\ brun = IdleBRun
    /\ \E n \in 1..MaxItems, p \in PostInits :
        /\ InitJob("A", "worker", n)
        /\ posts = [i \in ItemIds(n) |-> p]

HealthyStep(w) ==
    \/ WorkerTop(w, TRUE)
    \/ WorkerSetProcessing(w, TRUE, TRUE)
    \/ \E images \in BOOLEAN : RunnerFetch(w, "ok", images, TRUE, TRUE)
    \/ RunnerAnalyst(w, "ok", TRUE, TRUE)
    \/ WorkerCheckPost(w, TRUE, TRUE)
    \/ WorkerBump(w, TRUE)
    \/ WorkerFinally(w, TRUE)

HealthyNext ==
    \/ \E w \in Workers : WorkerTop(w, TRUE)
    \/ \E w \in Workers : WorkerSetProcessing(w, TRUE, TRUE)
    \/ \E w \in Workers, images \in BOOLEAN : RunnerFetch(w, "ok", images, TRUE, TRUE)
    \/ \E w \in Workers : RunnerAnalyst(w, "ok", TRUE, TRUE)
    \/ \E w \in Workers : WorkerCheckPost(w, TRUE, TRUE)
    \/ \E w \in Workers : WorkerBump(w, TRUE)
    \/ \E w \in Workers : WorkerFinally(w, TRUE)
    \/ Tick

HealthySpec ==
    /\ HealthyInit
    /\ [][HealthyNext]_vars
    /\ \A w \in Workers : WF_vars(HealthyStep(w))

(* ------------------------------------------------------------- _retry_db *)
(* the other components at rest: one job nobody works on *)
JobOff ==
    /\ EnvInit
    /\ ReadsOff
    /\ InitJob("A", "worker", 1)
    /\ posts = [i \in ItemIds(1) |-> AbsentPost]
    /\ brun = IdleBRun

Retries == 3
BaseSleepTenths == 3

(* the except clause of _retry_db that sleeps and goes round again *)
RetryAllowlist == {"httpx.RemoteProtocolError", "httpx.ReadError",
                   "httpcore.RemoteProtocolError", "httpcore.ReadError",
                   "httpx.ReadTimeout", "httpx.ConnectError", "httpcore.ConnectError",
                   "httpx.PoolTimeout", "OSError"}

(* what a call of func() can do: give the response, or raise *)
CallOutcomes == {"ok", "httpx.ReadTimeout", "httpcore.ConnectError", "OSError",
                 "postgrest.APIError", "KeyError"}

(* the callers of _retry_db *)
Helpers == {"rpc", "table_update", "table_insert", "table_select_single",
            "cached_call", "start_discovery"}

(* a helper that catches every exception of func() in the retrying clause *)
retry_db_catches_all(e) == TRUE

retry_db_catches(e) == e \in RetryAllowlist

(* what the store did with the request of one func() call: a call that    *)
(* returns was applied; a read timeout or a connection broken after the    *)
(* request was sent (OSError) loses the response of a request the store    *)
(* has or has not applied; a connect error, an error answer of the store   *)
(* and an error raised by the client mean that nothing was applied          *)
StoreApplied(out) ==
    IF out = "ok" THEN {TRUE}
    ELSE IF out \in {"httpx.ReadTimeout", "OSError"} THEN {TRUE, FALSE}
    ELSE {FALSE}

(* async with self._lock: res = await self._retry_db(_call) *)
HelperCalls(h, cached) ==
    /\ rt.pc = "idle"
    /\ rt.done < MaxInvocations
    /\ h = "cached_call" \/ ~cached
    /\ rt' = [rt EXCEPT !.pc = "call", !.helper = h, !.cached = cached, !.i = 0,
                        !.log = <<>>, !.slept = 0, !.result = "none", !.applied = 0]
    /\ UNCHANGED <<jmVars, envVars, readVars, toolVars, lockVars, discoveryVars, enrichVars>>

(* one round of `for i in range(retries)`: return await func(), or sleep   *)
(* base_sleep * 2**i after an error of the allowlist, or re-raise; after   *)
(* the last round: return None                                              *)
RetryAttempt(out) ==
    /\ rt.pc = "call"
    /\ \E applied \in StoreApplied(out) :
       LET log == Append(rt.log, out)
           n == rt.applied + (IF applied THEN 1 ELSE 0)
       IN
       IF out = "ok"
       THEN rt' = [rt EXCEPT !.pc = "returned", !.log = log, !.result = "data",
                             !.applied = n]
       ELSE IF retry_db_catches(out)
       THEN rt' = [rt EXCEPT !.log = log,
                             !.slept = @ + BaseSleepTenths * (2 ^ rt.i),
                             !.i = @ + 1,
                             !.pc = IF rt.i + 1 < Retries THEN "call" ELSE "returned",
                             !.result = IF rt.i + 1 < Retries THEN "none" ELSE "None",
                             !.applied = n]
       ELSE rt' = [rt EXCEPT !.pc = "raised", !.log = log, !.result = "raise",
                             !.applied = n]
    /\ UNCHANGED <<jmVars, envVars, readVars, toolVars, lockVars, discoveryVars, enrichVars>>

(* what the helper makes of the value of _retry_db: _rpc, _table_update    *)
(* and _table_insert raise RuntimeError on None, _table_select_single      *)
(* returns None, _cached_call serves the cached value or [] as degraded,   *)
(* start_discovery does not look at it; an exception of _retry_db leaves   *)
(* the helper as it is.                                                     *)
helper_outcome(h, cached, result) ==
    IF result = "raise" THEN "raise"
    ELSE IF result = "None"
    THEN CASE h \in {"rpc", "table_update", "table_insert"} -> "RuntimeError"
           [] h = "table_select_single" -> "None"
           [] h = "cached_call" -> IF cached THEN "stale, degraded" ELSE "[], degraded"
           [] OTHER -> "ignored"
    ELSE "data"

HelperLeaves ==
    /\ rt.pc \in {"returned", "raised"}
    /\ rt' = [RetryIdle EXCEPT
                !.done = rt.done + 1,
                !.last = [helper |-> rt.helper, cached |-> rt.cached, log |-> rt.log,
                          slept |-> rt.slept, result |-> rt.result, applied |-> rt.applied,
                          outcome |-> helper_outcome(rt.helper, rt.cached, rt.result)]]
    /\ UNCHANGED <<jmVars, envVars, readVars, toolVars, lockVars, discoveryVars, enrichVars>>

RetryInit == JobOff /\ RetryOff /\ LockOff /\ DiscoveryOff /\ EnrichOff /\ ToolsOff

RetryNext ==
    \/ \E h \in Helpers, cached \in BOOLEAN : HelperCalls(h, cached)
    \/ \E out \in CallOutcomes : RetryAttempt(out)
    \/ HelperLeaves

RetrySpec == RetryInit /\ [][RetryNext]_vars

(* --------------------------------------------------- the process-wide lock *)
(* A coroutine of the event loop (a worker loop, a read request) makes its  *)
(* store calls through the JobManager helpers: async with self._lock, then  *)
(* _retry_db, whose func() runs the request in a thread and awaits it.      *)
(* A worker of pipeline A hands the item to run_pipeline_a_job in a thread  *)
(* (asyncio.to_thread); the runner calls the store client itself and        *)
(* reports stages through stage_cb, which runs set_item_stage on the loop.  *)
ThreadCalls == {"run_pipeline", "update_vision_meta", "generate_commercial_report",
                "threads_posts.update"}

LockMoves(a, pc, holder) ==
    lk' = [lk EXCEPT !.pc[a] = pc, !.holder = holder]

(* async with self._lock, entered from the loop or for a stage_cb *)
LockAcquire(a) ==
    /\ lk.pc[a] \in {"loop", "thread"}
    /\ lk.pc[a] = "thread" => a \in Workers
    /\ lk.holder = "none"
    /\ lk' = [lk EXCEPT !.pc[a] = IF lk.pc[a] = "loop" THEN "locked" ELSE "cb_locked",
                        !.holder = a, !.i[a] = 0]
    /\ UNCHANGED <<jmVars, envVars, readVars, toolVars, retryVars, discoveryVars, enrichVars>>

(* func(): await asyncio.to_thread(lambda: self.db...execute()) *)
LockedSend(a) ==
    /\ lk.pc[a] \in {"locked", "cb_locked"}
    /\ LockMoves(a, IF lk.pc[a] = "locked" THEN "sent" ELSE "cb_sent", lk.holder)
    /\ UNCHANGED <<jmVars, envVars, readVars, toolVars, retryVars, discoveryVars, enrichVars>>

(* the request ends; after an error of the allowlist _retry_db sleeps and   *)
(* calls again inside the lock; otherwise the helper leaves the lock        *)
LockedResponse(a, transient) ==
    /\ lk.pc[a] \in {"sent", "cb_sent"}
    /\ IF transient /\ lk.i[a] + 1 < Retries
       THEN lk' = [lk EXCEPT !.pc[a] = IF lk.pc[a] = "sent" THEN "locked" ELSE "cb_locked",
                             !.i[a] = @ + 1]
       ELSE lk' = [lk EXCEPT !.pc[a] = IF lk.pc[a] = "sent" THEN "loop" ELSE "thread",
                             !.i[a] = 0, !.holder = "none"]
    /\ UNCHANGED <<jmVars, envVars, readVars, toolVars, retryVars, discoveryVars, enrichVars>>

(* post_id = await asyncio.to_thread(runner, job_id, target, ...) *)
EnterRunner(w) ==
    /\ lk.pc[w] = "loop"
    /\ LockMoves(w, "thread", lk.holder)
    /\ UNCHANGED <<jmVars, envVars, readVars, toolVars, retryVars, discoveryVars, enrichVars>>

(* the runner thread calls the store client: save_thread in run_pipeline,   *)
(* update_vision_meta, the analyst and the enricher, the update of          *)
(* threads_posts                                                            *)
ThreadSend(w, what) ==
    /\ lk.pc[w] = "thread"
    /\ lk' = [lk EXCEPT !.pc[w] = "thread_sent", !.what[w] = what]
    /\ UNCHANGED <<jmVars, envVars, readVars, toolVars, retryVars, discoveryVars, enrichVars>>

ThreadResponse(w) ==
    /\ lk.pc[w] = "thread_sent"
    /\ lk' = [lk EXCEPT !.pc[w] = "thread", !.what[w] = "none"]
    /\ UNCHANGED <<jmVars, envVars, readVars, toolVars, retryVars, discoveryVars, enrichVars>>

RunnerReturns(w) ==
    /\ lk.pc[w] = "thread"
    /\ LockMoves(w, "loop", lk.holder)
    /\ UNCHANGED <<jmVars, envVars, readVars, toolVars, retryVars, discoveryVars, enrichVars>>

LockInit == JobOff /\ RetryOff /\ LockOff /\ DiscoveryOff /\ EnrichOff /\ ToolsOff

LockNext ==
    \/ \E a \in LockAgents : LockAcquire(a)
    \/ \E a \in LockAgents : LockedSend(a)
    \/ \E a \in LockAgents, transient \in BOOLEAN : LockedResponse(a, transient)
    \/ \E w \in Workers : EnterRunner(w)
    \/ \E w \in Workers, what \in ThreadCalls : ThreadSend(w, what)
    \/ \E w \in Workers : ThreadResponse(w)
    \/ \E w \in Workers : RunnerReturns(w)

LockSpec == LockInit /\ [][LockNext]_vars

(* -------------------------------------------------------- start_discovery *)
MockCount == 5

(* str.strip() on a string of letters and blanks *)
RECURSIVE lstrip(_)
lstrip(s) == IF s /= <<>> /\ Head(s) = " " THEN lstrip(Tail(s)) ELSE s

RECURSIVE rstrip(_)
rstrip(s) == IF s /= <<>> /\ s[Len(s)] = " " THEN rstrip(SubSeq(s, 1, Len(s) - 1)) ELSE s

strip(s) == rstrip(lstrip(s))

(* add_target(val): a string is appended stripped; of a list, its strings; *)
(* anything else is skipped                                                 *)
RECURSIVE add_list(_, _)
add_list(raw_targets, l) ==
    IF l = <<>> THEN raw_targets
    ELSE add_list(IF Head(l).kind = "str" THEN Append(raw_targets, strip(Head(l).s))
                  ELSE raw_targets,
                  Tail(l))

add_target(raw_targets, val) ==
    IF val.kind = "str" THEN Append(raw_targets, strip(val.s))
    ELSE IF val.kind = "list" THEN add_list(raw_targets, val.l)
    ELSE raw_targets

(* for t in raw_targets: if not t or t in seen: continue *)
RECURSIVE dedup(_, _, _)
dedup(raw_targets, seen, targets) ==
    IF raw_targets = <<>> THEN targets
    ELSE LET t == Head(raw_targets) IN
         IF t = <<>> \/ t \in seen THEN dedup(Tail(raw_targets), seen, targets)
         ELSE dedup(Tail(raw_targets), seen \cup {t}, Append(targets, t))

Digit == <<"1", "2", "3", "4", "5">>

(* [f"mock://{job_id}/{i}" for i in range(1, 6)] *)
mock_targets == [i \in 1..MockCount |-> <<"mock://job/", Digit[i]>>]

discovery_targets(config) ==
    LET raw_targets ==
            add_target(add_target(add_target(add_target(add_target(<<>>,
                config.url), config.target), config.targets), config.lines),
                config.keywords)
        targets == dedup(raw_targets, {}, <<>>)
    IN IF targets = <<>> THEN mock_targets ELSE targets

items_data(targets) ==
    [k \in 1..Len(targets) |-> [target_id |-> targets[k], status |-> "pending",
                                stage |-> "init"]]

(* start_discovery(job_id): _table_select_single gives None when the store *)
(* is unreachable and job_data.get raises; _table_insert raises on None;   *)
(* the value of _retry_db(_update) is not looked at.                        *)
StartDiscovery(up_select, up_insert, up_update) ==
    /\ dsc.pc = "idle"
    /\ IF ~up_select \/ ~up_insert
       THEN dsc' = [dsc EXCEPT !.pc = "raised"]
       ELSE LET data == items_data(discovery_targets(dsc.config)) IN
            dsc' = [dsc EXCEPT !.pc = "returned",
                               !.inserted = data,
                               !.ret = Len(data),
                               !.total_count = IF up_update THEN Len(data) ELSE @,
                               !.status = IF up_update THEN "processing" ELSE @,
                               !.update_failed = ~up_update]
    /\ UNCHANGED <<jmVars, envVars, readVars, toolVars, retryVars, lockVars, enrichVars>>

(* the input_config values the requests are drawn from *)
ConfigStrings == {<<>>, <<" ">>, <<"a">>, <<" ", "a">>, <<"b", " ">>}

DiscoveryConfigs ==
    [url : {None, Number} \cup {Str(s) : s \in ConfigStrings},
     target : {None, Str(<<"a">>), Str(<<"b">>)},
     targets : {None, Str(<<"c">>), List(<<>>), List(<<Str(<<"a", " ">>)>>),
                List(<<Str(<<" ", "b">>), Str(<<"c">>)>>),
                List(<<Number, Str(<<"b">>)>>)},
     lines : {None, List(<<Str(<<"a">>), Str(<<"d">>)>>)},
     keywords : {None, List(<<Str(<<" ">>)>>), List(<<Str(<<"d">>), Str(<<"d">>)>>)}]

DiscoveryInit ==
    /\ JobOff /\ RetryOff /\ LockOff /\ EnrichOff /\ ToolsOff
    /\ \E config \in DiscoveryConfigs : dsc = [DiscoveryIdle EXCEPT !.config = config]

DiscoveryNext ==
    \E up_select, up_insert, up_update \in BOOLEAN :
        StartDiscovery(up_select, up_insert, up_update)

DiscoverySpec == DiscoveryInit /\ [][DiscoveryNext]_vars

(* --------------------------------------------------- phenomenon enricher *)
(* similarities in hundredths, confidences in hundredths of a point *)
MatchThreshold == 86
MatchTopK == 5
MintConfidence == 10000

(* cosine similarity of the embeddings of two fingerprints *)
Similarity(f, g) ==
    IF f = g THEN 100
    ELSE IF {f, g} = {"f1", "f2"} THEN 90
    ELSE IF {f, g} = {"f2", "f3"} THEN 86
    ELSE 50

(* match_phenomena_v768(query_embedding, match_threshold, match_count):    *)
(* the match_count nearest rows that carry an embedding, nearest first;    *)
(* rows of equal similarity come in any order.                              *)
Embedded(reg) == {id \in PhenomenonIds : reg[id].exists /\ reg[id].embedding /= "none"}

match_phenomena_v768(reg, f, match_count) ==
    LET rows == Embedded(reg)
        n == IF Cardinality(rows) < match_count THEN Cardinality(rows) ELSE match_count
        sim(id) == Similarity(f, reg[id].embedding)
    IN {[k \in 1..n |-> [id |-> c[k], similarity |-> sim(c[k])]] :
            c \in {d \in [1..n -> rows] :
                    /\ \A a, b \in 1..n : a < b => d[a] /= d[b] /\ sim(d[a]) >= sim(d[b])
                    /\ \A r \in rows : (\A a \in 1..n : d[a] /= r)
                                        => \A a \in 1..n : sim(d[a]) >= sim(r)}}

(* increment_occurrence(phenomenon_id) *)
increment_occurrence(reg, id) ==
    [reg EXCEPT ![id] = [@ EXCEPT !.occurrence_count = @ + 1]]

(* a _match_or_mint that matches only above the threshold *)
match_or_mint_above(fingerprint, candidates, raised) ==
    IF ~raised /\ candidates /= <<>> /\ candidates[1].similarity > MatchThreshold
    THEN [phenomenon_id |-> candidates[1].id, status |-> "matched",
          confidence |-> candidates[1].similarity * 100]
    ELSE [phenomenon_id |-> uuid5(fingerprint), status |-> "minted",
          confidence |-> MintConfidence]

(* _match_or_mint(bundle): candidates is resp.data; raised says that       *)
(* embed_text or the rpc raised                                             *)
match_or_mint(fingerprint, candidates, raised) ==
    IF ~raised /\ candidates /= <<>> /\ candidates[1].similarity >= MatchThreshold
    THEN [phenomenon_id |-> candidates[1].id, status |-> "matched",
          confidence |-> candidates[1].similarity * 100]
    ELSE [phenomenon_id |-> uuid5(fingerprint), status |-> "minted",
          confidence |-> MintConfidence]

(* the phenomenon block of the payload that the analyst hands to submit:  *)
(* _build_phenomenon leaves id and status unset, the analyst then tags     *)
(* the block pending; it is built from the LLM output, not from the post   *)
(* row                                                                      *)
build_phenomenon == [id |-> NoPhenomenon, status |-> "pending"]

(* the analyst has written analysis_json = analysis_payload to the post    *)
(* and calls submit(post_row, analysis_payload, ...): mark the post        *)
(* processing (best effort), then _run_safe inline on a deep copy of the   *)
(* payload                                                                  *)
Submit(p, up) ==
    /\ en.pc = "idle"
    /\ en.returned = NoPost
    /\ Len(en.order) < MaxRuns
    /\ p \in DOMAIN eposts
    /\ eposts' = [eposts EXCEPT ![p] =
                    [@ EXCEPT !.enrichment_status = IF up THEN "processing" ELSE @,
                              !.enrichment_last_error = IF up THEN FALSE ELSE @,
                              !.increment_failed = FALSE,
                              !.dim_mismatch = FALSE,
                              !.analysis_phenomenon = build_phenomenon,
                              !.patched = FALSE,
                              !.item = "processing"]]
    /\ en' = [EnrichIdle EXCEPT !.pc = "match", !.post = p, !.order = Append(en.order, p)]
    /\ UNCHANGED <<jmVars, envVars, readVars, toolVars, retryVars, lockVars, discoveryVars, registry>>

(* what a run of the enricher can meet before the match is decided:       *)
(* "crash" build_evidence_bundle raises, "raise" embed_text or the rpc      *)
(* raises, "dim" the embedding has not EMBED_DIM entries and embed_text     *)
(* raises ValueError                                                        *)
MatchOutcomes == {"ok", "raise", "dim", "crash"}

(* build_evidence_bundle, then _match_or_mint; an exception of the former  *)
(* goes to the handler of _run_safe, one inside _match_or_mint to its own  *)
(* except clause                                                            *)
MatchOrMint(out) ==
    /\ en.pc = "match"
    /\ IF out = "crash"
       THEN en' = [en EXCEPT !.pc = "crashed"]
       ELSE \E candidates \in
                IF out = "ok"
                THEN match_phenomena_v768(registry, eposts[en.post].fingerprint, MatchTopK)
                ELSE {<<>>} :
            en' = [en EXCEPT !.pc = "patch",
                             !.candidates = candidates,
                             !.raised = (out /= "ok"),
                             !.match = match_or_mint(eposts[en.post].fingerprint,
                                                     candidates, out /= "ok")]
    /\ eposts' = [eposts EXCEPT ![en.post].dim_mismatch = (out = "dim")]
    /\ UNCHANGED <<jmVars, envVars, readVars, toolVars, retryVars, lockVars, discoveryVars,
                   registry>>

(* the guard of _patch_analysis on the phenomenon block of the payload *)
already_finalized(phen_block) ==
    /\ phen_block.id /= NoPhenomenon
    /\ phen_block.status \notin {"pending", "failed", "provisional"}

(* _patch_analysis, first half: return when the payload's phenomenon is    *)
(* finalized, else update threads_posts (best effort)                       *)
PatchPost(up) ==
    /\ en.pc = "patch"
    /\ eposts' = IF up /\ ~already_finalized(build_phenomenon)
                 THEN [eposts EXCEPT ![en.post] =
                        [@ EXCEPT !.phenomenon_id = en.match.phenomenon_id,
                                  !.phenomenon_status = en.match.status,
                                  !.analysis_phenomenon =
                                        [id |-> en.match.phenomenon_id,
                                         status |-> en.match.status],
                                  !.patched = TRUE]]
                 ELSE eposts
    /\ en' = [en EXCEPT !.pc = IF already_finalized(build_phenomenon)
                               THEN "complete" ELSE "upsert"]
    /\ UNCHANGED <<jmVars, envVars, readVars, toolVars, retryVars, lockVars, discoveryVars, registry>>

(* table("narrative_phenomena").upsert(reg_payload, on_conflict="id") *)
registry_upsert(reg, match, fingerprint) ==
    [reg EXCEPT ![match.phenomenon_id] =
        [@ EXCEPT !.exists = TRUE, !.status = match.status, !.embedding = fingerprint]]

(* _patch_analysis, second half: embed_text and the upsert; an exception   *)
(* is logged as "Registry upsert failed" and the run goes on                *)
RegistryUpsert(up) ==
    /\ en.pc = "upsert"
    /\ eposts[en.post].dim_mismatch => ~up
    /\ registry' = IF up
                   THEN registry_upsert(registry, en.match, eposts[en.post].fingerprint)
                   ELSE registry
    /\ en' = [en EXCEPT !.pc = IF up THEN "increment" ELSE "complete"]
    /\ UNCHANGED <<jmVars, envVars, readVars, toolVars, retryVars, lockVars, discoveryVars, eposts>>

(* rpc("increment_occurrence"): its exception is wrapped in a RuntimeError *)
(* that the enclosing except clause of _patch_analysis logs as a warning   *)
IncrementOccurrence(up) ==
    /\ en.pc = "increment"
    /\ registry' = IF up THEN increment_occurrence(registry, en.match.phenomenon_id)
                   ELSE registry
    /\ eposts' = [eposts EXCEPT ![en.post].increment_failed = ~up]
    /\ en' = [en EXCEPT !.pc = "complete"]
    /\ UNCHANGED <<jmVars, envVars, readVars, toolVars, retryVars, lockVars, discoveryVars>>

(* _run_safe after _patch_analysis returned: mark completed (best effort) *)
MarkCompleted(up) ==
    /\ en.pc = "complete"
    /\ eposts' = IF up
                 THEN [eposts EXCEPT ![en.post] =
                        [@ EXCEPT !.enrichment_status = "completed",
                                  !.enrichment_last_error = FALSE]]
                 ELSE eposts
    /\ en' = [EnrichIdle EXCEPT !.order = en.order, !.returned = en.post]
    /\ UNCHANGED <<jmVars, envVars, readVars, toolVars, retryVars, lockVars, discoveryVars, registry>>

(* the handler of _run_safe: mark failed, _increment_retry_count; both     *)
(* best effort                                                              *)
MarkFailed(up, up_retry) ==
    /\ en.pc = "crashed"
    /\ eposts' = [eposts EXCEPT ![en.post] =
                    [@ EXCEPT !.enrichment_status = IF up THEN "failed" ELSE @,
                              !.enrichment_last_error = IF up THEN TRUE ELSE @,
                              !.enrichment_retry_count = IF up_retry THEN @ + 1 ELSE @]]
    /\ en' = [EnrichIdle EXCEPT !.order = en.order, !.returned = en.post]
    /\ UNCHANGED <<jmVars, envVars, readVars, toolVars, retryVars, lockVars, discoveryVars, registry>>

(* the block the analyst returns as analysis_json: submit handed          *)
(* copy.deepcopy(analysis_payload) to _run_safe, so the analyst's own      *)
(* payload still carries the block it was built with                        *)
returned_analysis_phenomenon == build_phenomenon

(* a runner that writes back the payload the enricher patched *)
patched_analysis_phenomenon == eposts[en.returned].analysis_phenomenon

(* run_pipeline_a_job after generate_commercial_report returned: the       *)
(* update of threads_posts with analysis_json and the other analysis keys  *)
(* of the analyst's result; its exception fails the analyst stage and the  *)
(* item, else the runner returns the post id and the item completes         *)
RunnerWriteBack(up) ==
    /\ en.pc = "idle"
    /\ en.returned /= NoPost
    /\ eposts' = [eposts EXCEPT ![en.returned] =
                    [@ EXCEPT !.analysis_phenomenon =
                                    IF up THEN returned_analysis_phenomenon ELSE @,
                              !.item = IF up THEN "completed" ELSE "failed"]]
    /\ en' = [en EXCEPT !.returned = NoPost]
    /\ UNCHANGED <<jmVars, envVars, readVars, toolVars, retryVars, lockVars, discoveryVars, registry>>

(* _run_one of pipeline B after generate_commercial_report returned:       *)
(* posts.append(analyst_res or ingest_res), nothing is written to the post *)
BatchKeepsResult ==
    /\ en.pc = "idle"
    /\ en.returned /= NoPost
    /\ eposts' = [eposts EXCEPT ![en.returned].item = "succeeded"]
    /\ en' = [en EXCEPT !.returned = NoPost]
    /\ UNCHANGED <<jmVars, envVars, readVars, toolVars, retryVars, lockVars, discoveryVars, registry>>

(* POST /library/phenomena/{id}/promote: provisional -> active, 409 for    *)
(* any other status, 404 for no row                                         *)
promote_phenomenon(id) ==
    /\ registry[id].exists
    /\ registry[id].status = "provisional"
    /\ registry' = [registry EXCEPT ![id].status = "active"]
    /\ UNCHANGED <<jmVars, envVars, readVars, toolVars, retryVars, lockVars, discoveryVars,
                   eposts, en>>

(* sync_registry(): one row per phenomenon_id found in threads_posts, with *)
(* the status it has or provisional, occurrence_count = number of posts    *)
sync_registry ==
    LET post_map == {eposts[p].phenomenon_id : p \in DOMAIN eposts} \ {NoPhenomenon}
        count(id) == Cardinality({p \in DOMAIN eposts : eposts[p].phenomenon_id = id})
        synced == [id \in PhenomenonIds |->
                    IF id \in post_map
                    THEN [registry[id] EXCEPT
                            !.exists = TRUE,
                            !.status = IF registry[id].exists THEN @ ELSE "provisional",
                            !.occurrence_count = count(id)]
                    ELSE registry[id]]
    IN /\ en.pc = "idle"
       /\ post_map /= {}
       /\ synced /= registry
       /\ registry' = synced
       /\ UNCHANGED <<jmVars, envVars, readVars, toolVars, retryVars, lockVars, discoveryVars,
                      eposts, en>>

EnrichInit ==
    /\ JobOff /\ RetryOff /\ LockOff /\ DiscoveryOff /\ ToolsOff
    /\ registry = [id \in PhenomenonIds |-> NoRow]
    /\ en = EnrichIdle
    /\ \E n \in 1..MaxPosts : \E fs \in [1..n -> Fingerprints] :
            eposts = [p \in 1..n |-> NewPost(fs[p])]

EnrichNext ==
    \/ \E p \in 1..MaxPosts, up \in BOOLEAN : Submit(p, up)
    \/ \E out \in MatchOutcomes : MatchOrMint(out)
    \/ \E up \in BOOLEAN : PatchPost(up)
    \/ \E up \in BOOLEAN : RegistryUpsert(up)
    \/ \E up \in BOOLEAN : IncrementOccurrence(up)
    \/ \E up \in BOOLEAN : MarkCompleted(up)
    \/ \E up, up_retry \in BOOLEAN : MarkFailed(up, up_retry)
    \/ \E up \in BOOLEAN : RunnerWriteBack(up)
    \/ BatchKeepsResult
    \/ \E id \in PhenomenonIds : promote_phenomenon(id)
    \/ sync_registry

EnrichSpec == EnrichInit /\ [][EnrichNext]_vars

(* ------------------------------------- POST /library/phenomena/{id}/promote *)
(* the other components at rest *)
ServicesOff == JobOff /\ RetryOff /\ LockOff /\ DiscoveryOff

MaxPromotes == 2

(* the values the status column of narrative_phenomena can hold; "null" is *)
(* SQL NULL (None in the response), "" the empty string                    *)
RowStatuses == {"provisional", "Provisional", "pending", "matched", "minted", "active",
                "failed", "null", ""}

(* str.lower() on the statuses above *)
lower(status) == IF status = "Provisional" THEN "provisional" ELSE status

(* truth value of a column value in Python: None and "" are false *)
truthy(status) == status \notin {"null", ""}

(* the answer of promote_phenomenon to the row it selected, before the     *)
(* update: 404 without a row, 409 for a truthy status other than           *)
(* provisional, else 200                                                    *)
promote_response(row) ==
    IF ~row.exists THEN 404
    ELSE IF truthy(row.status) /\ lower(row.status) /= "provisional" THEN 409
    ELSE 200

PromoteIdle == [pc |-> "idle", id |-> NoPhenomenon, before |-> NoRow, code |-> 0, calls |-> 0]

(* promote_phenomenon up to the decision: select id, status; 500 when the  *)
(* select raises                                                            *)
PromoteSelect(id, up) ==
    /\ promo.pc \in {"idle", "done"}
    /\ promo.calls < MaxPromotes
    /\ LET code == IF up THEN promote_response(registry[id]) ELSE 500
       IN promo' = [pc |-> IF code = 200 THEN "update" ELSE "done", id |-> id,
                    before |-> registry[id], code |-> code, calls |-> promo.calls + 1]
    /\ UNCHANGED <<jmVars, envVars, readVars, retryVars, lockVars, discoveryVars,
                   enrichVars, fp, aj, vis, pb, batch, cm, qe, cs, rec>>

(* update({"status": "active"}).eq("id", phenomenon_id); 500 when it raises *)
PromoteUpdate(up) ==
    /\ promo.pc = "update"
    /\ registry' = IF up THEN [registry EXCEPT ![promo.id].status = "active"] ELSE registry
    /\ promo' = [promo EXCEPT !.pc = "done", !.code = IF up THEN 200 ELSE 500]
    /\ UNCHANGED <<jmVars, envVars, readVars, retryVars, lockVars, discoveryVars,
                   eposts, en, fp, aj, vis, pb, batch, cm, qe, cs, rec>>

PromoteInit ==
    /\ ServicesOff
    /\ CommentsOff /\ QuantOff /\ BoundedCacheOff /\ RecoveryOff
    /\ FingerprintOff /\ AnalysisOff /\ VisionOff /\ PipelineBOff /\ BatchOff
    /\ eposts = [p \in {} |-> NewPost("f1")]
    /\ en = EnrichIdle
    /\ promo = PromoteIdle
    /\ registry \in [PhenomenonIds ->
                        {NoRow} \cup {[NoRow EXCEPT !.exists = TRUE, !.status = st] :
                                        st \in RowStatuses}]

PromoteNext ==
    \/ \E id \in PhenomenonIds, up \in BOOLEAN : PromoteSelect(id, up)
    \/ \E up \in BOOLEAN : PromoteUpdate(up)

PromoteSpec == PromoteInit /\ [][PromoteNext]_vars

(* ------------------------------------------------- phenomenon_fingerprint *)
TOP_M_CLUSTER_SAMPLES == 3
TOP_K_GLOBAL_REACTIONS == 5
TRIGGER_MAX_LEN == 2400
ARTIFACT_MAX_LEN == 2400
REACTION_MAX_LEN == 3200

MaxClusters == 2
MaxSamples == 2
MaxComments == 8
MaxBuilds == 2

(* texts are sequences of characters of this alphabet; ord gives their     *)
(* order by code point                                                      *)
Letters == <<"a", "b", "c", "d", "e", "f", "g", "h", "i">>

ord(c) ==
    IF c = " " THEN 32
    ELSE IF c = "A" THEN 65
    ELSE 96 + CHOOSE k \in DOMAIN Letters : Letters[k] = c

(* comparison of two str values *)
RECURSIVE TextLess(_, _)
TextLess(s, t) ==
    IF t = <<>> THEN FALSE
    ELSE IF s = <<>> THEN TRUE
    ELSE IF ord(s[1]) /= ord(t[1]) THEN ord(s[1]) < ord(t[1])
    ELSE TextLess(Tail(s), Tail(t))

TextLeq(s, t) == s = t \/ TextLess(s, t)

(* re.sub(r"\s+", " ", text) *)
RECURSIVE collapse(_)
collapse(text) ==
    IF Len(text) < 2 THEN text
    ELSE IF text[1] = " " /\ text[2] = " " THEN collapse(Tail(text))
    ELSE <<text[1]>> \o collapse(Tail(text))

to_lower(text) == [i \in DOMAIN text |-> IF text[i] = "A" THEN "a" ELSE text[i]]

(* normalize_text(text, max_len); the alphabet has no BOM and nothing that *)
(* NFC changes; max_len 0 stands for None                                   *)
normalize_text(text, max_len) ==
    LET normalized == to_lower(strip(collapse(text)))
    IN IF max_len > 0 /\ Len(normalized) > max_len
       THEN SubSeq(normalized, 1, max_len)
       ELSE normalized

(* the value of a set with one element: Only({e(x) : x \in {d}}) is e(d)    *)
(* with d computed once                                                     *)
Only(S) == CHOOSE x \in S : TRUE

SeqRange(q) == {q[i] : i \in DOMAIN q}

(* likes and normalized text of every sample or comment of a list *)
sample_keys(samples) ==
    [i \in DOMAIN samples |->
        [likes |-> samples[i].likes, norm |-> normalize_text(samples[i].text, 0)]]

(* the sort key (-likes, normalize_text(text)) *)
SampleKeyLess(a, b) ==
    \/ a.likes > b.likes
    \/ a.likes = b.likes /\ TextLess(a.norm, b.norm)

(* sorted(samples, key=...): stable, so an element stands behind the       *)
(* elements of smaller key and the earlier elements of equal key            *)
sort_samples(samples) ==
    Only({LET Before(j, i) ==
                \/ SampleKeyLess(keys[j], keys[i])
                \/ keys[j] = keys[i] /\ j < i
              place(i) == Cardinality({j \in DOMAIN keys : Before(j, i)}) + 1
          IN [k \in DOMAIN keys |-> samples[CHOOSE i \in DOMAIN keys : place(i) = k]] :
          keys \in {sample_keys(samples)}})

(* sha256(...).hexdigest(): injective; two digests compare as their        *)
(* preimages do, which fixes one total order on the digests                 *)
sha256(joined) == <<"sha256", joined>>

RECURSIVE JoinedLess(_, _)
JoinedLess(a, b) ==
    IF b = <<>> THEN FALSE
    ELSE IF a = <<>> THEN TRUE
    ELSE IF a[1] /= b[1] THEN TextLess(a[1], b[1])
    ELSE JoinedLess(Tail(a), Tail(b))

DigestLeq(d, e) == d = e \/ JoinedLess(d[2], e[2])

(* cluster_signature_hash(samples, top_m): the digest of the normalized    *)
(* texts of the top_m samples that have a text, joined by newlines          *)
cluster_signature_hash(samples, top_m) ==
    Only({LET chosen == {i \in DOMAIN ordered : i <= top_m /\ ordered[i].text /= <<>>}
              nth(k) == CHOOSE i \in chosen : Cardinality({j \in chosen : j < i}) = k - 1
          IN sha256([k \in 1..Cardinality(chosen) |-> normalize_text(ordered[nth(k)].text, 0)]) :
          ordered \in {sort_samples(samples)}})

(* size and signature of every cluster of the summary: the dict is the     *)
(* sequence of its items in insertion order                                 *)
cluster_keys(cluster_summary) ==
    [i \in DOMAIN cluster_summary |->
        [cid |-> cluster_summary[i].cid, size |-> cluster_summary[i].size,
         samples |-> cluster_summary[i].samples,
         sig |-> cluster_signature_hash(cluster_summary[i].samples, TOP_M_CLUSTER_SAMPLES)]]

(* the sort key (-_cluster_size, _sig) *)
ClusterKeyLess(a, b) ==
    \/ a.size > b.size
    \/ a.size = b.size /\ a.sig /= b.sig /\ DigestLeq(a.sig, b.sig)

(* order_clusters(cluster_summary); list.sort is stable *)
order_clusters(cluster_summary) ==
    Only({LET Before(j, i) ==
                \/ ClusterKeyLess(entries[j], entries[i])
                \/ entries[j].size = entries[i].size /\ entries[j].sig = entries[i].sig /\ j < i
              place(i) == Cardinality({j \in DOMAIN entries : Before(j, i)}) + 1
          IN [k \in DOMAIN entries |-> entries[CHOOSE i \in DOMAIN entries : place(i) = k]] :
          entries \in {cluster_keys(cluster_summary)}})

(* max(samples, key=(likes, normalize_text(text))): the normalized text of *)
(* the first sample whose key no other sample exceeds                       *)
top_sample(samples) ==
    Only({LET Exceeds(j, i) ==
                \/ keys[j].likes > keys[i].likes
                \/ keys[j].likes = keys[i].likes /\ TextLess(keys[i].norm, keys[j].norm)
          IN keys[Min({i \in DOMAIN keys : \A j \in DOMAIN keys : ~Exceeds(j, i)})].norm :
          keys \in {sample_keys(samples)}})

(* a global pick loop that stops one reaction too late *)
cap_reached_late(picked, clusters) == Len(picked) > clusters + TOP_K_GLOBAL_REACTIONS

(* len(picked) >= len(ordered_clusters) + TOP_K_GLOBAL_REACTIONS *)
cap_reached(picked, clusters) == Len(picked) >= clusters + TOP_K_GLOBAL_REACTIONS

(* if norm and norm not in seen: seen.add(norm); picked.append(norm) *)
pick(picked, norm) ==
    IF norm /= <<>> /\ norm \notin SeqRange(picked) THEN Append(picked, norm) ELSE picked

(* the first loop of select_reaction_samples, from cluster k on *)
RECURSIVE pick_heads(_, _, _)
pick_heads(ordered_clusters, k, picked) ==
    IF k > Len(ordered_clusters) THEN picked
    ELSE Only({pick_heads(ordered_clusters, k + 1, next) :
                next \in {IF ordered_clusters[k].samples = <<>> THEN picked
                          ELSE pick(picked, top_sample(ordered_clusters[k].samples))}})

(* the second loop of select_reaction_samples, from comment k on *)
RECURSIVE pick_global(_, _, _, _)
pick_global(global_sorted, k, picked, clusters) ==
    IF k > Len(global_sorted) \/ cap_reached(picked, clusters) THEN picked
    ELSE Only({pick_global(global_sorted, k + 1, next, clusters) :
                next \in {pick(picked, normalize_text(global_sorted[k].text, 0))}})

select_reaction_samples(cluster_summary, comments) ==
    Only({Only({pick_global(global_sorted, 1, heads, Len(ordered_clusters)) :
                    global_sorted \in {sort_samples(comments)},
                    heads \in {pick_heads(ordered_clusters, 1, <<>>)}}) :
          ordered_clusters \in {order_clusters(cluster_summary)}})

(* build_evidence_bundle without images and OCR text: the fingerprint is   *)
(* the template filled with trigger, artifact and the reactions joined by  *)
(* newlines, the case_id its digest                                         *)
build_evidence_bundle(post_text, comments, cluster_summary) ==
    Only({Only({[fingerprint |-> fingerprint, case_id |-> sha256(fingerprint),
                 reactions |-> fingerprint.reactions] :
                    fingerprint \in {[trigger |-> normalize_text(post_text, TRIGGER_MAX_LEN),
                                      artifact |-> normalize_text(<<>>, ARTIFACT_MAX_LEN),
                                      reactions |-> [i \in DOMAIN selected |->
                                            normalize_text(selected[i], REACTION_MAX_LEN)]]}}) :
          selected \in {select_reaction_samples(cluster_summary, comments)}})

(* one call of build_evidence_bundle on the inputs at hand *)
BuildEvidenceBundle ==
    /\ fp.pc = "ready"
    /\ Len(fp.bundles) < MaxBuilds
    /\ \E bundle \in {build_evidence_bundle(fp.post_text, fp.comments, fp.cluster_summary)} :
            fp' = [fp EXCEPT !.pc = "built",
                             !.reactions = bundle.reactions,
                             !.bundles = Append(@, bundle)]
    /\ UNCHANGED <<jmVars, envVars, readVars, retryVars, lockVars, discoveryVars,
                   enrichVars, promo, aj, vis, pb, batch, cm, qe, cs, rec>>

(* the caller builds the same cluster_summary with its keys inserted in    *)
(* another order                                                            *)
PermuteKeys ==
    /\ fp.pc = "built"
    /\ \E perm \in [DOMAIN fp.cluster_summary -> DOMAIN fp.cluster_summary] :
            /\ \A i, j \in DOMAIN perm : i /= j => perm[i] /= perm[j]
            /\ \E i \in DOMAIN perm : perm[i] /= i
            /\ fp' = [fp EXCEPT !.pc = "ready",
                                !.cluster_summary = [i \in DOMAIN perm |-> fp.cluster_summary[perm[i]]]]
    /\ UNCHANGED <<jmVars, envVars, readVars, retryVars, lockVars, discoveryVars,
                   enrichVars, promo, aj, vis, pb, batch, cm, qe, cs, rec>>

SampleTexts == {<<>>, <<" ", "A">>, <<"b">>}
SampleLists ==
    UNION {[1..n -> [text : SampleTexts, likes : {0, 1}]] : n \in 0..MaxSamples}

(* comments: none, or the letters ascending with every second one liked,   *)
(* or descending with no likes; and a list with repeated and empty texts   *)
CommentLists ==
    {[i \in 1..n |-> [text |-> <<Letters[IF asc THEN i ELSE n + 1 - i]>>,
                       likes |-> IF asc THEN i % 2 ELSE 0]] :
        n \in {0, MaxComments}, asc \in BOOLEAN}
    \cup {<<[text |-> <<"A">>, likes |-> 0], [text |-> <<>>, likes |-> 3],
            [text |-> <<"a", " ">>, likes |-> 2], [text |-> <<"c">>, likes |-> 2]>>}

ClusterSummaries ==
    UNION {{[i \in 1..n |-> [cid |-> i, size |-> sz[i], samples |-> sm[i]]] :
                sz \in [1..n -> {1, 2}], sm \in [1..n -> SampleLists]} : n \in 0..MaxClusters}

FingerprintInit ==
    /\ ServicesOff /\ EnrichOff
    /\ CommentsOff /\ QuantOff /\ BoundedCacheOff /\ RecoveryOff
    /\ PromoteOff /\ AnalysisOff /\ VisionOff /\ PipelineBOff /\ BatchOff
    /\ \E cluster_summary \in ClusterSummaries, comments \in CommentLists :
            fp = [pc |-> "ready", post_text |-> <<" ", "A", " ", " ", "b">>,
                  cluster_summary |-> cluster_summary, comments |-> comments,
                  reactions |-> <<>>, bundles |-> <<>>]

FingerprintNext == BuildEvidenceBundle \/ PermuteKeys

FingerprintSpec == FingerprintInit /\ [][FingerprintNext]_vars

(* ---------------------------------------------------- build_analysis_json *)
(* a number column or LLM number: None or an integer *)
NoneVal == [none |-> TRUE, n |-> 0]
IntVal(n) == [none |-> FALSE, n |-> n]

(* a or b on such values: None and 0 are false *)
py_or(a, b) == IF ~a.none /\ a.n /= 0 THEN a ELSE b

(* a or b on strings, "null" for None *)
str_or(a, b) == IF truthy(a) THEN a ELSE b

coerce_int(val) == IF val.none THEN NoneVal ELSE IF val.n < 0 THEN IntVal(0) ELSE val

(* _build_metrics(post_data, llm_data): crawler numbers first, the numbers *)
(* of llm_data["Post_Stats"] where the crawler number is None              *)
build_metrics(post_data, llm_stats) ==
    LET crawler_likes == coerce_int(py_or(post_data.like_count, post_data.likes))
        crawler_views == coerce_int(py_or(post_data.view_count, post_data.impression_count))
        crawler_replies == coerce_int(py_or(post_data.reply_count, post_data.comment_count))
        likes == IF crawler_likes.none THEN coerce_int(llm_stats.Likes) ELSE crawler_likes
        views == IF crawler_views.none THEN coerce_int(llm_stats.Views) ELSE crawler_views
        replies == IF crawler_replies.none THEN coerce_int(llm_stats.Replies)
                   ELSE crawler_replies
    IN [likes |-> py_or(likes, IntVal(0)), views |-> views, replies |-> replies]

(* _build_post_block(post_data, metrics) *)
build_post_block(post_data, metrics) ==
    [post_id |-> str_or(post_data.id, "unknown"),
     author |-> post_data.author,
     text |-> str_or(post_data.post_text, "null"),
     timestamp |-> str_or(post_data.captured_at, post_data.created_at),
     metrics |-> metrics]

(* build_analysis_json: the post block and the phenomenon of               *)
(* _build_phenomenon, whose id, status and name are None                    *)
build_analysis_json(post_data, llm_stats) ==
    [post |-> build_post_block(post_data, build_metrics(post_data, llm_stats)),
     phenomenon |-> [id |-> "null", status |-> "null", name |-> "null"]]

(* isinstance(analysis_v4.post, PostBlock): the field post of AnalysisV4   *)
(* is declared as PostBlock                                                 *)
IsPostBlock(post) == TRUE

(* protect_core_fields(post_row, analysis_v4): post_dict gets the crawler  *)
(* values, and is used only if analysis_v4.post is no PostBlock             *)
protect_core_fields(post_row, analysis_v4) ==
    LET crawler_likes == coerce_int(py_or(post_row.like_count, post_row.likes))
        crawler_views == coerce_int(py_or(post_row.view_count, post_row.impression_count))
        crawler_replies == coerce_int(py_or(post_row.reply_count, post_row.comment_count))
        old == analysis_v4.post.metrics
        metrics == [likes |-> IF ~crawler_likes.none THEN crawler_likes ELSE old.likes,
                    views |-> IF ~crawler_views.none THEN crawler_views ELSE old.views,
                    replies |-> IF ~crawler_replies.none THEN crawler_replies
                                ELSE old.replies]
        created_at == str_or(post_row.created_at, post_row.captured_at)
        post_dict == [analysis_v4.post EXCEPT
                        !.text = str_or(post_row.post_text, analysis_v4.post.text),
                        !.author = str_or(post_row.author, analysis_v4.post.author),
                        !.timestamp = str_or(created_at, analysis_v4.post.timestamp),
                        !.metrics = metrics]
        post_block == IF IsPostBlock(analysis_v4.post) THEN analysis_v4.post ELSE post_dict
    IN [analysis_v4 EXCEPT !.post = post_block]

(* generate_commercial_report: a phenomenon without id and status is       *)
(* tagged pending                                                           *)
tag_pending(analysis_v4) ==
    IF ~truthy(analysis_v4.phenomenon.id) /\ ~truthy(analysis_v4.phenomenon.status)
    THEN [analysis_v4 EXCEPT !.phenomenon.status = "pending"]
    ELSE analysis_v4

(* the evidence attribute of the object handed to validate_analysis_json:  *)
(* absent (AnalysisV4 declares no such field and ignores extra keys), or a *)
(* dict with refs of the given length                                       *)
NoEvidence == [present |-> FALSE, refs |-> 0]
MaxRefs == 3
Evidences == {NoEvidence} \cup {[present |-> TRUE, refs |-> k] : k \in 0..MaxRefs}

(* validate_analysis_json(analysis_v4): (is_valid, invalid_reason,          *)
(* missing_keys); analysis_version is read with the default "v4"           *)
validate_analysis_json(analysis_v4, evidence) ==
    LET version == "v4"
        evidence_count == IF evidence.present THEN evidence.refs ELSE 0
        missing ==
            (IF ~truthy(analysis_v4.post.post_id) THEN <<"post.id">> ELSE <<>>)
            \o (IF ~truthy(analysis_v4.post.text) THEN <<"post.text">> ELSE <<>>)
            \o (IF ~truthy(analysis_v4.post.timestamp) THEN <<"post.created_at">> ELSE <<>>)
            \o (IF /\ ~truthy(analysis_v4.phenomenon.id)
                   /\ ~truthy(analysis_v4.phenomenon.name)
                   /\ analysis_v4.phenomenon.status /= "pending"
                THEN <<"phenomenon.id_or_name">> ELSE <<>>)
            \o (IF evidence_count < 2 THEN <<"phenomenon.evidence>=2">> ELSE <<>>)
    IN IF version \notin {"v4", "v4.1"}
       THEN [valid |-> FALSE, reason |-> "unsupported_version", missing |-> <<"analysis_version">>]
       ELSE IF missing /= <<>>
       THEN [valid |-> FALSE, reason |-> "missing_required_fields", missing |-> missing]
       ELSE [valid |-> TRUE, reason |-> "", missing |-> <<>>]

AnalysisOthers == <<jmVars, envVars, readVars, retryVars, lockVars, discoveryVars,
                    enrichVars, promo, fp, vis, pb, batch, cm, qe, cs, rec>>

(* build_and_validate_analysis_json(post_data, llm_data) *)
BuildAnalysis ==
    /\ aj.pc = "input"
    /\ aj' = [aj EXCEPT !.pc = "built",
                        !.analysis = build_analysis_json(aj.post_data, aj.llm_stats)]
    /\ UNCHANGED AnalysisOthers

ProtectCoreFields ==
    /\ aj.pc = "built"
    /\ aj' = [aj EXCEPT !.pc = "protected",
                        !.analysis = protect_core_fields(aj.post_data, aj.analysis)]
    /\ UNCHANGED AnalysisOthers

TagPending ==
    /\ aj.pc = "protected"
    /\ aj' = [aj EXCEPT !.pc = "tagged", !.analysis = tag_pending(aj.analysis)]
    /\ UNCHANGED AnalysisOthers

ValidateAnalysis(evidence) ==
    /\ aj.pc = "tagged"
    /\ aj' = [aj EXCEPT !.pc = "validated", !.evidence = evidence,
                        !.result = validate_analysis_json(aj.analysis, evidence)]
    /\ UNCHANGED AnalysisOthers

PostRows ==
    [id : {"null", "p1"},
     like_count : {NoneVal, IntVal(0), IntVal(7)}, likes : {NoneVal, IntVal(3)},
     view_count : {NoneVal, IntVal(0), IntVal(70)}, impression_count : {NoneVal},
     reply_count : {NoneVal, IntVal(2)}, comment_count : {NoneVal},
     post_text : {"null", "", "row text"}, author : {"null", "row author"},
     created_at : {"null", "t1"}, captured_at : {"null", "t2"}]

LlmStats == [Likes : {NoneVal, IntVal(500)}, Views : {NoneVal, IntVal(900)},
             Replies : {NoneVal, IntVal(40)}]

AnalysisInit ==
    /\ ServicesOff /\ EnrichOff
    /\ CommentsOff /\ QuantOff /\ BoundedCacheOff /\ RecoveryOff
    /\ PromoteOff /\ FingerprintOff /\ VisionOff /\ PipelineBOff /\ BatchOff
    /\ \E post_data \in PostRows, llm_stats \in LlmStats :
            aj = [pc |-> "input", post_data |-> post_data, llm_stats |-> llm_stats,
                  analysis |-> build_analysis_json(post_data, llm_stats),
                  evidence |-> NoEvidence,
                  result |-> [valid |-> FALSE, reason |-> "", missing |-> <<>>]]

AnalysisNext ==
    \/ BuildAnalysis
    \/ ProtectCoreFields
    \/ TagPending
    \/ \E evidence \in Evidences : ValidateAnalysis(evidence)

AnalysisSpec == AnalysisInit /\ [][AnalysisNext]_vars

(* ------------------------------------------------------------ vision gate *)
(* scores in tenths: the default threshold 2.0 *)
Threshold == 20
MaxImages == 2
MaxGateComments == 2

VisionModes == {"off", "auto", "force"}
StageCaps == {"auto", "v1", "v2"}

RECURSIVE SumLens(_)
SumLens(lens) == IF lens = <<>> THEN 0 ELSE Head(lens) + SumLens(Tail(lens))

(* VisionGate.evaluate; post_text and the comment texts are given by their *)
(* stripped lengths, the runners pass no embeddings and metrics_reliable   *)
(* True                                                                     *)
evaluate(images_count, text_len, comment_lens, vision_mode, metrics) ==
    IF vision_mode = "off" \/ images_count <= 0
    THEN [run_v1 |-> FALSE, score |-> 0, reasons |-> <<"NoImagesOrOff">>]
    ELSE IF vision_mode = "force"
    THEN [run_v1 |-> TRUE, score |-> 9990, reasons |-> <<"ForceMode">>]
    ELSE
    LET silent == images_count > 0 /\ text_len < 80
        nonempty == SelectSeq(comment_lens, LAMBDA n : n > 0)
        short == nonempty /= <<>> /\ SumLens(nonempty) < 12 * Len(nonempty)
        many_empty == nonempty /= <<>> /\ 10 * Len(nonempty) < 7 * Len(comment_lens)
        impact == metrics.view_count > 50000 \/ metrics.like_count > 300
                  \/ metrics.reply_count > 120
        score == (IF silent THEN 20 ELSE 0)
                 + (IF nonempty = <<>> THEN 10
                    ELSE (IF short THEN 10 ELSE 0) + (IF many_empty THEN 5 ELSE 0))
                 + (IF impact THEN 15 ELSE 0)
        reasons == (IF silent THEN <<"SilentPost">> ELSE <<>>)
                   \o (IF short THEN <<"ShortComments">> ELSE <<>>)
                   \o (IF many_empty THEN <<"ManyEmptyComments">> ELSE <<>>)
                   \o (IF nonempty = <<>> THEN <<"NoReadableComments">> ELSE <<>>)
                   \o (IF impact THEN <<"HighImpact">> ELSE <<>>)
    IN [run_v1 |-> score >= Threshold, score |-> score, reasons |-> reasons]

VisionOthers == <<jmVars, envVars, readVars, retryVars, lockVars, discoveryVars,
                  enrichVars, promo, fp, aj, pb, batch, cm, qe, cs, rec>>

(* both runners: a post without images gets no gate and no worker *)
VisionSkipped ==
    /\ vis.pc = "ingested" /\ vis.images_count = 0
    /\ vis' = [vis EXCEPT !.pc = "done"]
    /\ UNCHANGED VisionOthers

(* gate.evaluate in run_pipeline_a_job (A) and in _run_one of pipeline B *)
GateEvaluate ==
    /\ vis.pc = "ingested" /\ vis.images_count > 0
    /\ vis' = [vis EXCEPT !.pc = "decided",
                          !.decision = evaluate(vis.images_count, vis.text_len,
                                                vis.comment_lens, vis.vision_mode,
                                                vis.metrics)]
    /\ UNCHANGED VisionOthers

(* the condition under which the runner calls worker.run_v1: pipeline A    *)
(* asks only for an http source of the first image, pipeline B asks for    *)
(* dec.run_v1 first                                                         *)
calls_v1(runner, decision, src_http) ==
    IF runner = "A" THEN src_http ELSE decision.run_v1 /\ src_http

(* worker.run_v1(src); what V1 reports of the image is the worker's answer *)
RunV1(has_text) ==
    /\ vis.pc = "decided"
    /\ calls_v1(vis.runner, vis.decision, vis.src_http)
    /\ vis' = [vis EXCEPT !.pc = "v1", !.v1_calls = @ + 1, !.stage_ran = "v1",
                          !.has_text = has_text]
    /\ UNCHANGED VisionOthers

should_v2(vision_stage_cap, has_text) ==
    vision_stage_cap \in {"v2", "auto"} /\ has_text /\ vision_stage_cap /= "v1"

(* worker.run_v2(src) *)
RunV2 ==
    /\ vis.pc = "v1"
    /\ should_v2(vis.vision_stage_cap, vis.has_text)
    /\ vis' = [vis EXCEPT !.pc = "v2", !.v2_calls = @ + 1, !.stage_ran = "v2"]
    /\ UNCHANGED VisionOthers

(* update_vision_meta with the stage that ran *)
UpdateVisionMeta ==
    /\ \/ vis.pc = "decided" /\ ~calls_v1(vis.runner, vis.decision, vis.src_http)
       \/ vis.pc = "v1" /\ ~should_v2(vis.vision_stage_cap, vis.has_text)
       \/ vis.pc = "v2"
    /\ vis' = [vis EXCEPT !.pc = "done"]
    /\ UNCHANGED VisionOthers

(* worker.run_v1(src) when the download fails, the CDN answers with an    *)
(* HTML soft-block page or Gemini raises: _run returns {"error": ...}, so  *)
(* the runner sees an answer without has_text                               *)
RunV1Fails ==
    /\ vis.pc = "decided"
    /\ calls_v1(vis.runner, vis.decision, vis.src_http)
    /\ vis' = [vis EXCEPT !.pc = "v1", !.v1_calls = @ + 1, !.stage_ran = "v1",
                          !.has_text = FALSE, !.v1_error = TRUE]
    /\ UNCHANGED VisionOthers

(* worker.run_v2(src) returning {"error": ...} *)
RunV2Fails ==
    /\ vis.pc = "v1"
    /\ should_v2(vis.vision_stage_cap, vis.has_text)
    /\ vis' = [vis EXCEPT !.pc = "v2", !.v2_calls = @ + 1, !.stage_ran = "v2",
                          !.v2_error = TRUE]
    /\ UNCHANGED VisionOthers

(* the statements of the vision stage that can raise: gate.evaluate, the   *)
(* reading of V1's answer ((v1.get("text_density") or "").lower() on a     *)
(* value that is no string), and update_vision_meta, which raises          *)
(* RuntimeError when the PATCH is not ok                                    *)
VisionSteps == {"gate", "v1_answer", "write"}

(* a try block around the worker calls alone *)
caught_by_worker_try(step) == step = "v1_answer"

(* the try block of the vision stage encloses every one of them; its       *)
(* except clause logs the soft-fail and the runner goes on                  *)
caught_by_vision_try(step) == step \in VisionSteps

VisionRaises(step) ==
    /\ \/ step = "gate" /\ vis.pc = "ingested" /\ vis.images_count > 0
       \/ step = "v1_answer" /\ vis.pc = "v1" /\ ~vis.v1_error
       \/ /\ step = "write"
          /\ \/ vis.pc = "decided" /\ ~calls_v1(vis.runner, vis.decision, vis.src_http)
             \/ vis.pc = "v1" /\ ~should_v2(vis.vision_stage_cap, vis.has_text)
             \/ vis.pc = "v2"
    /\ vis' = IF caught_by_vision_try(step)
              THEN [vis EXCEPT !.pc = "done", !.vision_error = step]
              ELSE [vis EXCEPT !.pc = "finished", !.vision_error = step,
                               !.item = "failed"]
    /\ UNCHANGED VisionOthers

(* _stage("analyst") and generate_commercial_report: the runner returns    *)
(* the post id and the item is completed, or the analyst raises and the    *)
(* item is failed                                                           *)
Analyst(out) ==
    /\ vis.pc = "done"
    /\ vis' = [vis EXCEPT !.pc = "finished", !.stage = "analyst",
                          !.item = IF out = "ok" THEN "completed" ELSE "failed"]
    /\ UNCHANGED VisionOthers

GateComments ==
    UNION {[1..n -> {0, 5, 12}] : n \in 0..MaxGateComments}

GateMetrics ==
    [view_count : {0, 50001}, like_count : {0, 301}, reply_count : {0}]

VisionInit ==
    /\ ServicesOff /\ EnrichOff
    /\ CommentsOff /\ QuantOff /\ BoundedCacheOff /\ RecoveryOff
    /\ PromoteOff /\ FingerprintOff /\ AnalysisOff /\ PipelineBOff /\ BatchOff
    /\ \E runner \in {"A", "B"}, vision_mode \in VisionModes, cap \in StageCaps,
          images_count \in 0..MaxImages, src_http \in BOOLEAN,
          text_len \in {0, 79, 80}, comment_lens \in GateComments,
          metrics \in GateMetrics :
            vis = [pc |-> "ingested", runner |-> runner, vision_mode |-> vision_mode,
                   vision_stage_cap |-> cap, images_count |-> images_count,
                   src_http |-> src_http, text_len |-> text_len,
                   comment_lens |-> comment_lens, metrics |-> metrics,
                   decision |-> [run_v1 |-> FALSE, score |-> 0, reasons |-> <<>>],
                   stage_ran |-> "none", has_text |-> FALSE,
                   v1_calls |-> 0, v2_calls |-> 0,
                   vision_error |-> "none", v1_error |-> FALSE, v2_error |-> FALSE,
                   stage |-> "vision", item |-> "processing"]

VisionNext ==
    \/ VisionSkipped
    \/ GateEvaluate
    \/ \E has_text \in BOOLEAN : RunV1(has_text)
    \/ RunV1Fails
    \/ RunV2
    \/ RunV2Fails
    \/ UpdateVisionMeta
    \/ \E step \in VisionSteps : VisionRaises(step)
    \/ \E out \in {"ok", "raise"} : Analyst(out)

VisionSpec == VisionInit /\ [][VisionNext]_vars

(* ------------------------------------------- process_pipeline_b_backend *)
(* canonical URLs are numbered 1..MaxUrls *)
MaxUrls == 7
MaxPostsCap == 20

PolicyNames == {"skip_if_exists", "force_if_keyword_hit", "force_all"}

should_reprocess(reprocess_policy, keyword_hit) ==
    \/ reprocess_policy = "force_all"
    \/ reprocess_policy = "force_if_keyword_hit" /\ keyword_hit

(* max(1, min(max_posts or 20, 20)) *)
clamp_max_posts(max_posts) ==
    LET wanted == IF max_posts = 0 THEN MaxPostsCap ELSE max_posts
        capped == IF wanted < MaxPostsCap THEN wanted ELSE MaxPostsCap
    IN IF capped > 1 THEN capped ELSE 1

PipelineBOthers == <<jmVars, envVars, readVars, retryVars, lockVars, discoveryVars,
                     enrichVars, promo, fp, aj, vis, batch, cm, qe, cs, rec>>

(* deduped = list({u for u in candidates if u}), cut to max_posts entries: *)
(* a list made from a set has no order the code chooses, so the cut keeps  *)
(* any max_posts of the distinct URLs                                       *)
Dedupe(kept) ==
    /\ pb.pc = "discovered"
    /\ LET deduped == SeqRange(pb.candidates)
           max_posts == clamp_max_posts(pb.max_posts)
       IN /\ kept \subseteq deduped
          /\ Cardinality(kept) = (IF Cardinality(deduped) > max_posts THEN max_posts
                                  ELSE Cardinality(deduped))
          /\ pb' = [pb EXCEPT !.pc = "deduped",
                              !.discovery_count = Len(pb.candidates),
                              !.deduped_count = Cardinality(deduped),
                              !.deduped = kept]
    /\ UNCHANGED PipelineBOthers

(* fetch_existing_post_ids(deduped) and the loop that sorts every kept URL *)
(* into skipped_exists, skipped_policy or scheduled                         *)
Schedule ==
    /\ pb.pc = "deduped"
    /\ LET existing_map == pb.deduped \cap pb.existing
           reprocess == should_reprocess(pb.reprocess_policy, pb.keyword)
           skipped_exists == IF pb.exclude_existing /\ ~reprocess THEN existing_map ELSE {}
           skipped_policy == IF ~pb.exclude_existing /\ ~reprocess THEN existing_map ELSE {}
           scheduled == pb.deduped \ (skipped_exists \cup skipped_policy)
       IN pb' = [pb EXCEPT !.pc = "scheduled",
                           !.skipped_exists = skipped_exists,
                           !.skipped_policy = skipped_policy,
                           !.scheduled = scheduled,
                           !.todo = scheduled]
    /\ UNCHANGED PipelineBOthers

(* run_one(idx, url, sem): ingest and analysis of one scheduled URL either *)
(* go through or raise                                                      *)
run_one(ok) ==
    /\ pb.pc = "scheduled" /\ pb.todo /= {}
    /\ LET url == CHOOSE u \in pb.todo : \A v \in pb.todo : u <= v
       IN pb' = [pb EXCEPT !.todo = @ \ {url},
                           !.success = IF ok THEN @ + 1 ELSE @,
                           !.fail = IF ok THEN @ ELSE @ + 1]
    /\ UNCHANGED PipelineBOthers

build_batch_summary(discovery_count, deduped_count, selected_count, skipped_exists, skipped_policy, success_count, fail_count) ==
    [discovery_count |-> discovery_count, deduped_count |-> deduped_count,
     selected_count |-> selected_count, skipped_exists |-> skipped_exists,
     skipped_policy |-> skipped_policy, success_count |-> success_count,
     fail_count |-> fail_count]

(* the summary returned once every task has ended *)
ReturnSummary ==
    /\ pb.pc = "scheduled" /\ pb.todo = {}
    /\ pb' = [pb EXCEPT !.pc = "done",
                        !.summary = build_batch_summary(
                            pb.discovery_count, pb.deduped_count,
                            Cardinality(pb.scheduled), Cardinality(pb.skipped_exists),
                            Cardinality(pb.skipped_policy), pb.success, pb.fail)]
    /\ UNCHANGED PipelineBOthers

(* the first n URLs, and the first of them once more *)
CandidateLists ==
    {[i \in 1..n |-> i] : n \in {0, 3, MaxUrls}}
    \cup {[i \in 1..n |-> i] \o <<1>> : n \in {3, MaxUrls}}

ExistingSets == {{}, {1}, {1, 2}, {MaxUrls - 1, MaxUrls}}

PipelineBInit ==
    /\ ServicesOff /\ EnrichOff
    /\ CommentsOff /\ QuantOff /\ BoundedCacheOff /\ RecoveryOff
    /\ PromoteOff /\ FingerprintOff /\ AnalysisOff /\ VisionOff /\ BatchOff
    /\ \E candidates \in CandidateLists, existing \in ExistingSets,
          max_posts \in {0, 3, 5}, exclude_existing \in BOOLEAN,
          reprocess_policy \in PolicyNames, keyword \in BOOLEAN :
            pb = [pc |-> "discovered", candidates |-> candidates, existing |-> existing,
                  max_posts |-> max_posts, exclude_existing |-> exclude_existing,
                  reprocess_policy |-> reprocess_policy, keyword |-> keyword,
                  discovery_count |-> 0, deduped_count |-> 0, deduped |-> {},
                  skipped_exists |-> {}, skipped_policy |-> {}, scheduled |-> {},
                  todo |-> {}, success |-> 0, fail |-> 0,
                  summary |-> build_batch_summary(0, 0, 0, 0, 0, 0, 0)]

PipelineBNext ==
    \/ \E kept \in SUBSET (1..MaxUrls) : Dedupe(kept)
    \/ Schedule
    \/ \E ok \in BOOLEAN : run_one(ok)
    \/ ReturnSummary

PipelineBSpec == PipelineBInit /\ [][PipelineBNext]_vars

(* ------------------------------------------------------------ batch_runner *)
MaxBatchUrls == 5
MaxBatchRuns == 2
RateLimitTrip == 3
FailureTrip == 5

STATUS_QUEUED == "queued"
STATUS_RUNNING == "running"
STATUS_SUCCEEDED == "succeeded"
STATUS_FAILED == "failed"

(* what run_pipeline does for one URL: data, an exception whose message    *)
(* classify_rate_limit accepts ("429", "rate limit", "too many requests"), *)
(* or another exception                                                     *)
PipelineOutcomes == {"ok", "rate_limit", "error"}
classify_rate_limit(err) == err = "rate_limit"

BatchOthers == <<jmVars, envVars, readVars, retryVars, lockVars, discoveryVars,
                 enrichVars, promo, fp, aj, vis, pb, cm, qe, cs, rec>>

(* run_batch up to the loop: load_state, discovery into an empty state     *)
(* file, the counters at 0                                                  *)
StartBatch(n) ==
    /\ batch.pc = "idle" /\ batch.run < MaxBatchRuns
    /\ LET urls_state == IF batch.urls_state = <<>>
                         THEN [i \in 1..n |-> [status |-> STATUS_QUEUED, attempts |-> 0,
                                               last_error |-> "none"]]
                         ELSE batch.urls_state
       IN batch' = [batch EXCEPT !.pc = "loop", !.run = @ + 1,
                                 !.urls_state = urls_state, !.before = urls_state,
                                 !.idx = 1, !.suspected_rl = 0,
                                 !.consecutive_failures = 0, !.completed = 0,
                                 !.dispatched = <<>>, !.skipped = {},
                                 !.tripped = FALSE]
    /\ UNCHANGED BatchOthers

skips(meta, max_attempts, reprocess_policy) ==
    \/ meta.status = STATUS_SUCCEEDED
    \/ /\ meta.status = STATUS_FAILED /\ meta.attempts >= max_attempts
       /\ reprocess_policy = "skip_if_exists"

(* an iteration that ends at one of the two continue statements *)
SkipUrl ==
    /\ batch.pc = "loop" /\ batch.idx <= Len(batch.urls_state)
    /\ skips(batch.urls_state[batch.idx], batch.max_attempts, batch.reprocess_policy)
    /\ batch' = [batch EXCEPT !.idx = @ + 1, !.skipped = @ \cup {batch.idx}]
    /\ UNCHANGED BatchOthers

breaker(suspected_rl, consecutive_failures) ==
    suspected_rl >= RateLimitTrip \/ consecutive_failures >= FailureTrip

(* an iteration that ends at the break *)
BreakerTrips ==
    /\ batch.pc = "loop" /\ batch.idx <= Len(batch.urls_state)
    /\ ~skips(batch.urls_state[batch.idx], batch.max_attempts, batch.reprocess_policy)
    /\ breaker(batch.suspected_rl, batch.consecutive_failures)
    /\ batch' = [batch EXCEPT !.pc = "finish", !.tripped = TRUE]
    /\ UNCHANGED BatchOthers

(* an iteration that runs the pipeline: status running and attempts + 1    *)
(* saved, then the outcome written over the status and saved                *)
Dispatch(outcome) ==
    /\ batch.pc = "loop" /\ batch.idx <= Len(batch.urls_state)
    /\ ~skips(batch.urls_state[batch.idx], batch.max_attempts, batch.reprocess_policy)
    /\ ~breaker(batch.suspected_rl, batch.consecutive_failures)
    /\ LET meta == batch.urls_state[batch.idx]
           running == [meta EXCEPT !.status = STATUS_RUNNING, !.attempts = @ + 1]
           ended == IF outcome = "ok"
                    THEN [running EXCEPT !.status = STATUS_SUCCEEDED, !.last_error = "none"]
                    ELSE [running EXCEPT !.status = STATUS_FAILED, !.last_error = outcome]
       IN batch' = [batch EXCEPT
                        !.urls_state[batch.idx] = ended,
                        !.suspected_rl = IF outcome = "ok" THEN 0
                                         ELSE IF classify_rate_limit(outcome) THEN @ + 1
                                         ELSE 0,
                        !.consecutive_failures = IF outcome = "ok" THEN 0 ELSE @ + 1,
                        !.completed = IF outcome = "ok" THEN @ + 1 ELSE @,
                        !.dispatched = Append(@, [url |-> batch.idx,
                                                  suspected_rl |-> batch.suspected_rl,
                                                  outcome |-> outcome]),
                        !.idx = @ + 1]
    /\ UNCHANGED BatchOthers

(* the end of run_batch: the last save_state *)
FinishBatch ==
    /\ \/ batch.pc = "finish"
       \/ batch.pc = "loop" /\ batch.idx > Len(batch.urls_state)
    /\ batch' = [batch EXCEPT !.pc = "idle"]
    /\ UNCHANGED BatchOthers

BatchInit ==
    /\ ServicesOff /\ EnrichOff
    /\ CommentsOff /\ QuantOff /\ BoundedCacheOff /\ RecoveryOff
    /\ PromoteOff /\ FingerprintOff /\ AnalysisOff /\ VisionOff /\ PipelineBOff
    /\ \E max_attempts \in {1, 3}, reprocess_policy \in {"skip_if_exists", "force_all"} :
            batch = [pc |-> "idle", run |-> 0, max_attempts |-> max_attempts,
                     reprocess_policy |-> reprocess_policy, urls_state |-> <<>>,
                     before |-> <<>>, idx |-> 1, suspected_rl |-> 0,
                     consecutive_failures |-> 0, completed |-> 0,
                     dispatched |-> <<>>, skipped |-> {}, tripped |-> FALSE]

BatchNext ==
    \/ \E n \in 1..MaxBatchUrls : StartBatch(n)
    \/ SkipUrl
    \/ BreakerTrips
    \/ \E outcome \in PipelineOutcomes : Dispatch(outcome)
    \/ FinishBatch

BatchSpec == BatchInit /\ [][BatchNext]_vars

(* -------------------------------------------------- sync_comments_to_table *)
MaxIngests == 3
MaxBatchComments == 2
CommentPost == 1

(* _normalize_text(val): " ".join(val.split()).strip() *)
normalize_comment_text(val) == strip(collapse(val))

(* the comment dicts of the parser: user, text, the native id found in the *)
(* block or None ("null"); the parser sets no key "id"                      *)
RawTexts == {<<"x">>, <<" ", "x", " ", " ">>, <<"y">>}
IngestComments ==
    [user : {"ann"}, text : RawTexts, source_comment_id : {"null", "s1", "s2"},
     id : {"null"}]

(* _legacy_comment_id(post_id, comment): sha256 of post_id:author:text *)
legacy_comment_id(post_id, comment) ==
    sha256(<<post_id, comment.user, normalize_comment_text(comment.text)>>)

(* _fetch_existing_ids_by_source: source_comment_id -> id of the rows of   *)
(* the post; a failed select is logged and yields no mapping                *)
fetch_existing_ids_by_source(table, source_ids, select_ok) ==
    IF ~select_ok THEN {}
    ELSE {row \in table : truthy(row.source_comment_id) /\ row.source_comment_id \in source_ids}

(* the id _map_comments_to_rows gives one comment *)
db_comment_id(c, post_id, existing_by_source) ==
    IF truthy(c.source_comment_id)
       /\ \E row \in existing_by_source : row.source_comment_id = c.source_comment_id
    THEN (CHOOSE row \in existing_by_source : row.source_comment_id = c.source_comment_id).id
    ELSE IF truthy(c.id) THEN c.id
    ELSE legacy_comment_id(post_id, c)

map_comments_to_rows(comments, post_id, existing_by_source) ==
    [i \in DOMAIN comments |->
        [id |-> db_comment_id(comments[i], post_id, existing_by_source),
         text |-> comments[i].text, author_handle |-> comments[i].user,
         source_comment_id |-> comments[i].source_comment_id]]

RECURSIVE upsert(_, _)
(* threads_comments.upsert(rows): a row replaces the row with its id *)
upsert(table, rows) ==
    IF rows = <<>> THEN table
    ELSE upsert({r \in table : r.id /= Head(rows).id} \cup {Head(rows)}, Tail(rows))

(* (post_id, author, normalized text) of a row *)
CommentKey(row) == <<CommentPost, row.author_handle, normalize_comment_text(row.text)>>

CommentsOthers == <<jmVars, envVars, readVars, retryVars, lockVars, discoveryVars,
                    enrichVars, promo, fp, aj, vis, pb, batch, qe, cs, rec>>

(* sync_comments_to_table(post_id, raw_comments), one ingest of the post *)
SyncComments(comments, select_ok, upsert_ok) ==
    /\ cm.pc = "ready" /\ cm.ingests < MaxIngests
    /\ LET source_ids == {comments[i].source_comment_id : i \in DOMAIN comments} \ {"null"}
           existing_by_source == fetch_existing_ids_by_source(cm.table, source_ids, select_ok)
           rows == map_comments_to_rows(comments, CommentPost, existing_by_source)
       IN cm' = [cm EXCEPT
                    !.ingests = @ + 1,
                    !.table = IF upsert_ok THEN upsert(@, rows) ELSE @,
                    !.written = IF upsert_ok
                                THEN @ \cup {[key |-> CommentKey(rows[i]), id |-> rows[i].id,
                                              source |-> rows[i].source_comment_id]
                                             : i \in DOMAIN rows}
                                ELSE @,
                    !.report = [ok |-> upsert_ok, count |-> IF upsert_ok THEN Len(rows) ELSE 0]]
    /\ UNCHANGED CommentsOthers

CommentsInit ==
    /\ ServicesOff /\ EnrichOff
    /\ PromoteOff /\ FingerprintOff /\ AnalysisOff /\ VisionOff /\ PipelineBOff /\ BatchOff
    /\ QuantOff /\ BoundedCacheOff /\ RecoveryOff
    /\ cm = [pc |-> "ready", ingests |-> 0, table |-> {}, written |-> {},
             report |-> [ok |-> TRUE, count |-> 0]]

CommentsNext ==
    \E n \in 1..MaxBatchComments :
        \E comments \in [1..n -> IngestComments], select_ok \in BOOLEAN, upsert_ok \in BOOLEAN :
            SyncComments(comments, select_ok, upsert_ok)

CommentsSpec == CommentsInit /\ [][CommentsNext]_vars

(* ------------------------------------------------- the bounded read cache *)
(* _CACHE_STORE with its insertion order and _CACHE_MAX_KEYS; the read     *)
(* routes above use three keys and never come near the bound                *)
CACHE_MAX_KEYS == 256
MaxCacheOps == 3

(* a key is a prefix ("jobs_list:", "job_items:") and the rest *)
CacheKey(prefix, n) == [prefix |-> prefix, n |-> n]
Prefixes == {"jobs_list:", "job_items:"}

StoreKeys(store) == {store[i].key : i \in DOMAIN store}
IndexOf(store, key) == CHOOSE i \in DOMAIN store : store[i].key = key

(* min(_CACHE_STORE.keys(), key=time): the first key in insertion order    *)
(* among those with the smallest time                                       *)
oldest_key(store) ==
    store[CHOOSE i \in DOMAIN store :
            /\ \A j \in DOMAIN store : store[i].time <= store[j].time
            /\ \A j \in 1..(i - 1) : store[j].time > store[i].time].key

cache_pop(store, key) == SelectSeq(store, LAMBDA e : e.key /= key)

(* an eviction that waits until the dict holds more than the maximum *)
must_evict_late(store, key) == key \notin StoreKeys(store) /\ Len(store) > CACHE_MAX_KEYS

(* the test of _cache_set for an eviction *)
must_evict(store, key) == key \notin StoreKeys(store) /\ Len(store) >= CACHE_MAX_KEYS

(* _cache_set(key, data) at time t: a dict keeps the place of a key that   *)
(* is written again                                                         *)
bounded_cache_set(store, key, t) ==
    LET kept == IF must_evict(store, key) THEN cache_pop(store, oldest_key(store))
                ELSE store
    IN IF key \in StoreKeys(kept)
       THEN [kept EXCEPT ![IndexOf(kept, key)].time = t]
       ELSE Append(kept, [key |-> key, time |-> t])

(* _cache_del_prefix(prefix) *)
bounded_cache_del_prefix(store, prefix) ==
    SelectSeq(store, LAMBDA e : e.key.prefix /= prefix)

BoundedCacheOthers == <<jmVars, envVars, readVars, retryVars, lockVars, discoveryVars,
                        enrichVars, promo, fp, aj, vis, pb, batch, cm, qe, rec>>

(* _cached_call(key, ttl, func): a fresh entry is served, otherwise the    *)
(* store is asked and its answer cached; dt is the time since the last call *)
CachedCall(key, up, dt) ==
    /\ cs.pc = "serving" /\ cs.ops < MaxCacheOps
    /\ LET t == cs.clock + dt
           fresh == /\ key \in StoreKeys(cs.store)
                    /\ t - cs.store[IndexOf(cs.store, key)].time < CacheTTL
       IN cs' = [cs EXCEPT !.clock = t, !.ops = @ + 1, !.before = cs.store,
                           !.last = [op |-> IF fresh \/ ~up THEN "read" ELSE "set",
                                     key |-> key],
                           !.store = IF fresh \/ ~up THEN @
                                     ELSE bounded_cache_set(@, key, t)]
    /\ UNCHANGED BoundedCacheOthers

(* _table_insert into job_batches or job_items: the prefix is invalidated *)
InvalidatePrefix(prefix) ==
    /\ cs.pc = "serving" /\ cs.ops < MaxCacheOps
    /\ cs' = [cs EXCEPT !.ops = @ + 1, !.before = cs.store,
                        !.last = [op |-> "del", key |-> CacheKey(prefix, 0)],
                        !.store = bounded_cache_del_prefix(@, prefix)]
    /\ UNCHANGED BoundedCacheOthers

(* the cache after n reads of n different keys, job lists and item lists   *)
(* in turn, the first `rewritten` of them read again later                  *)
FilledStore(n, rewritten) ==
    [i \in 1..n |->
        [key |-> CacheKey(IF i % 8 = 0 THEN "jobs_list:" ELSE "job_items:", i),
         time |-> IF i <= rewritten THEN n + i ELSE i \div 2]]

(* the keys a call may ask for: the first, second and last one stored, and *)
(* two that were never stored                                               *)
AskedKeys ==
    {CacheKey("job_items:", 1), CacheKey("job_items:", 2),
     CacheKey("jobs_list:", CACHE_MAX_KEYS),
     CacheKey("job_items:", CACHE_MAX_KEYS + 1), CacheKey("jobs_list:", CACHE_MAX_KEYS + 2)}

BoundedCacheInit ==
    /\ ServicesOff /\ EnrichOff
    /\ PromoteOff /\ FingerprintOff /\ AnalysisOff /\ VisionOff /\ PipelineBOff /\ BatchOff
    /\ CommentsOff /\ QuantOff /\ RecoveryOff
    /\ \E n \in {0, CACHE_MAX_KEYS - 1, CACHE_MAX_KEYS}, rewritten \in 0..1 :
            /\ rewritten <= n
            /\ cs = [pc |-> "serving", ops |-> 0, clock |-> 2 * CACHE_MAX_KEYS,
                     store |-> FilledStore(n, rewritten),
                     before |-> FilledStore(n, rewritten),
                     last |-> [op |-> "none", key |-> CacheKey("jobs_list:", 0)]]

BoundedCacheNext ==
    \/ \E key \in AskedKeys, up \in BOOLEAN, dt \in {0, CacheTTL} : CachedCall(key, up, dt)
    \/ \E prefix \in Prefixes : InvalidatePrefix(prefix)

BoundedCacheSpec == BoundedCacheInit /\ [][BoundedCacheNext]_vars

(* ------------------------------------------------------ post-id recovery *)
(* attempts of _recover_post_id *)
RecoverAttempts == 3
NeverAppears == RecoverAttempts + 1

(* the target of an item: with or without a query, on threads.com or not   *)
TargetUrls == [query : BOOLEAN, com : BOOLEAN]

(* _url_candidates(url): the raw URL, the URL without its query, and the   *)
(* rebuilt www.threads.net URL of a threads.com target                      *)
url_candidates(url) ==
    <<"raw">> \o (IF url.query THEN <<"noquery">> ELSE <<>>)
    \o (IF url.com THEN <<"net">> ELSE <<>>)

(* the row of the post in threads_posts at the time of a round: its url    *)
(* has one of the candidate forms or another form ("other"), and it is     *)
(* there from round `round` on                                              *)
RowForms == {"raw", "noquery", "net", "other"}
RowAt(appears, round) == IF round >= appears.round THEN {appears.form} ELSE {}

(* _fetch_post_id_by_url and _fetch_post_id_by_shortcode: None when the    *)
(* store cannot be reached                                                  *)
fetch_post_id_by_url(rows, up, candidate) == up /\ candidate \in rows
fetch_post_id_by_shortcode(rows, up) == up /\ rows /= {}

(* one round of _recover_post_id: every candidate, then the shortcode *)
round_finds(url, rows, up) ==
    \/ \E k \in DOMAIN url_candidates(url) : fetch_post_id_by_url(rows, up, url_candidates(url)[k])
    \/ fetch_post_id_by_shortcode(rows, up)

(* _recover_post_id(url): the first round that finds the row, if any *)
recover_post_id(url, appears, ups) ==
    LET hits == {r \in 1..RecoverAttempts : round_finds(url, RowAt(appears, r), ups[r])}
    IN IF hits = {} THEN [found |-> FALSE, rounds |-> RecoverAttempts]
       ELSE [found |-> TRUE, rounds |-> Min(hits)]

RecoveryOthers == <<jmVars, envVars, readVars, retryVars, lockVars, discoveryVars,
                    enrichVars, promo, fp, aj, vis, pb, batch, cm, qe, cs>>

(* run_pipeline_a_job: a crawl result without id raises INGEST_NO_POST_ID, *)
(* a failing fetch or analyst raises, otherwise the post id is returned    *)
RunRunner(fetch, analyst) ==
    /\ rec.pc = "claimed"
    /\ rec' = [rec EXCEPT
                !.fetch = fetch,
                !.pc = IF fetch = "id" /\ analyst /= "raise" THEN "returned" ELSE "threw",
                !.post_id = IF fetch = "id" /\ analyst /= "raise" THEN "p1" ELSE "",
                !.has_analysis = fetch = "id" /\ analyst = "ok"]
    /\ UNCHANGED RecoveryOthers

(* except Exception as exc: fail_item(item_id, current_stage, RUNNER_ERROR) *)
RunnerError ==
    /\ rec.pc = "threw"
    /\ rec' = [rec EXCEPT !.pc = "done", !.status = "failed", !.error_code = "RUNNER_ERROR"]
    /\ UNCHANGED RecoveryOthers

(* the worker after the runner returned: recovery when post_id is empty,   *)
(* then the check of the post row                                           *)
AfterRunner(ups) ==
    /\ rec.pc = "returned"
    /\ LET recovered == recover_post_id(rec.url, rec.appears, ups)
           post_id == IF rec.post_id /= "" THEN rec.post_id
                      ELSE IF recovered.found THEN "p1" ELSE ""
       IN rec' = [rec EXCEPT
                    !.pc = "done",
                    !.rounds = IF rec.post_id = "" THEN recovered.rounds ELSE 0,
                    !.post_id = post_id,
                    !.status = IF post_id /= "" /\ rec.has_analysis THEN "completed"
                               ELSE "failed",
                    !.error_code = IF post_id = "" THEN "POST_ID_NOT_FOUND"
                                   ELSE IF ~rec.has_analysis THEN "ANALYSIS_MISSING"
                                   ELSE "none"]
    /\ UNCHANGED RecoveryOthers

RecoveryInit ==
    /\ ServicesOff /\ EnrichOff
    /\ PromoteOff /\ FingerprintOff /\ AnalysisOff /\ VisionOff /\ PipelineBOff /\ BatchOff
    /\ CommentsOff /\ QuantOff /\ BoundedCacheOff
    /\ \E url \in TargetUrls, form \in RowForms, round \in 1..NeverAppears :
            rec = [pc |-> "claimed", url |-> url,
                   appears |-> [form |-> form, round |-> round],
                   fetch |-> "none", post_id |-> "", has_analysis |-> FALSE,
                   rounds |-> 0, status |-> "processing", error_code |-> "none"]

RecoveryNext ==
    \/ \E fetch \in {"id", "no_id", "raise"}, analyst \in {"ok", "missing", "raise"} :
            RunRunner(fetch, analyst)
    \/ RunnerError
    \/ \E ups \in [1..RecoverAttempts -> BOOLEAN] : AfterRunner(ups)

RecoverySpec == RecoveryInit /\ [][RecoveryNext]_vars

(* ------------------------------------- perform_structure_mapping, persistence *)
MaxMappings == 2
MaxMappedClusters == 1
MaxAssignments == 2

QuantOthers == <<jmVars, envVars, readVars, retryVars, lockVars, discoveryVars,
                 enrichVars, promo, fp, aj, vis, pb, batch, cm, cs, rec>>

(* the post_id argument: None, an int, or a string *)
NoneId == [kind |-> "none", n |-> 0, s |-> ""]
IntId(n) == [kind |-> "int", n |-> n, s |-> ""]
StrId(s) == [kind |-> "str", n |-> 0, s |-> s]
MappingPostIds == {NoneId, IntId(7), StrId("7"), StrId("8"), StrId("p")}

(* try: post_id_for_db = int(post_id) except: post_id_for_db = post_id *)
post_id_for_db(post_id) ==
    IF post_id = StrId("7") THEN IntId(7)
    ELSE IF post_id = StrId("8") THEN IntId(8)
    ELSE post_id

(* the values of the environment variable DL_PERSIST_ASSIGNMENTS *)
PersistEnvs == {"unset", "0", "1", "true"}

(* a flag that is on unless it is set to 0 *)
PERSIST_ASSIGNMENTS_default_on(env) == env /= "0"

(* PERSIST_ASSIGNMENTS = os.getenv("DL_PERSIST_ASSIGNMENTS", "0") == "1" *)
PERSIST_ASSIGNMENTS(env) == env = "1"

(* one entry of the persistence report; skipped and reason are "absent"    *)
(* when the dict has no such key, error says that it has an error key      *)
Report(ok, skipped, error, reason) ==
    [ok |-> ok, skipped |-> skipped, error |-> error, reason |-> reason]

NotAttempted == Report(FALSE, "true", FALSE, "absent")

(* upsert_comment_clusters(post_id, clusters) and                          *)
(* apply_comment_cluster_assignments(post_id, assignments): nothing to     *)
(* write is ok and skipped, the rpc's exception becomes ok False + error   *)
store_rpc_report(n, up) ==
    IF n = 0 THEN Report(TRUE, "true", FALSE, "absent")
    ELSE IF up THEN Report(TRUE, "false", FALSE, "absent")
    ELSE Report(FALSE, "absent", TRUE, "absent")

QuantIdle == [pc |-> "idle", env |-> "unset", post_id |-> NoneId, clusters |-> 0,
              assignments |-> 0, calls |-> <<>>,
              persistence |-> [clusters |-> NotAttempted, assignments |-> NotAttempted],
              raised |-> FALSE, upsert_failed |-> FALSE, assign_failed |-> FALSE,
              import_failed |-> FALSE, runs |-> 0]

(* perform_structure_mapping(comments_list, post_id) up to the persistence *)
(* block: the cluster payloads and the assignments are assembled           *)
StartMapping(post_id, clusters, assignments) ==
    /\ qe.pc = "idle"
    /\ qe.runs < MaxMappings
    /\ post_id = NoneId => clusters = 0
    /\ qe' = [qe EXCEPT !.pc = "persist", !.post_id = post_id, !.clusters = clusters,
                        !.assignments = assignments,
                        !.persistence = [clusters |-> NotAttempted,
                                         assignments |-> NotAttempted],
                        !.raised = FALSE, !.upsert_failed = FALSE,
                        !.assign_failed = FALSE, !.import_failed = FALSE]
    /\ UNCHANGED QuantOthers

(* if post_id is not None and clusters_payload: ... else nothing is written *)
SkipPersistence ==
    /\ qe.pc = "persist"
    /\ ~(qe.post_id /= NoneId /\ qe.clusters > 0)
    /\ qe' = [qe EXCEPT !.pc = "returned"]
    /\ UNCHANGED QuantOthers

(* the statements of the persistence block: the import of database.store  *)
(* and the two store calls; the try block encloses all of them              *)
caught_by_persistence_try(step) == step \in {"import", "upsert", "assign"}

(* from database.store import ... raises: the except clause of the         *)
(* persistence block writes both entries                                    *)
ImportFails ==
    /\ qe.pc = "persist"
    /\ qe.post_id /= NoneId /\ qe.clusters > 0
    /\ qe' = [qe EXCEPT
                !.pc = "returned", !.import_failed = TRUE,
                !.raised = ~caught_by_persistence_try("import"),
                !.persistence =
                    [clusters |-> Report(FALSE, "false", TRUE, "absent"),
                     assignments |-> Report(FALSE,
                                            IF PERSIST_ASSIGNMENTS(qe.env) THEN "false"
                                            ELSE "true",
                                            TRUE, "absent")]]
    /\ UNCHANGED QuantOthers

(* cluster_res = upsert_comment_clusters(post_id_for_db, clusters_payload) *)
UpsertClusters(up) ==
    /\ qe.pc = "persist"
    /\ qe.post_id /= NoneId /\ qe.clusters > 0
    /\ qe' = [qe EXCEPT
                !.pc = "assign",
                !.calls = Append(@, [rpc |-> "upsert_comment_clusters",
                                     post |-> post_id_for_db(qe.post_id)]),
                !.upsert_failed = ~up,
                !.persistence.clusters = store_rpc_report(qe.clusters, up)]
    /\ UNCHANGED QuantOthers

(* if PERSIST_ASSIGNMENTS: apply_comment_cluster_assignments(...) else the *)
(* skipped entry; then the function returns its result                      *)
ApplyAssignments(up) ==
    /\ qe.pc = "assign"
    /\ qe' = IF PERSIST_ASSIGNMENTS(qe.env)
             THEN [qe EXCEPT
                    !.pc = "returned",
                    !.calls = IF qe.assignments > 0
                              THEN Append(@, [rpc |-> "set_comment_cluster_assignments",
                                              post |-> post_id_for_db(qe.post_id)])
                              ELSE @,
                    !.assign_failed = qe.assignments > 0 /\ ~up,
                    !.persistence.assignments = store_rpc_report(qe.assignments, up)]
             ELSE [qe EXCEPT
                    !.pc = "returned",
                    !.persistence.assignments =
                        Report(FALSE, "true", FALSE, "DL_PERSIST_ASSIGNMENTS=0")]
    /\ UNCHANGED QuantOthers

(* return {..., "persistence": persistence} *)
ReturnMapping ==
    /\ qe.pc = "returned"
    /\ qe' = [qe EXCEPT !.pc = "idle", !.runs = @ + 1]
    /\ UNCHANGED QuantOthers

QuantInit ==
    /\ ServicesOff /\ EnrichOff
    /\ PromoteOff /\ FingerprintOff /\ AnalysisOff /\ VisionOff /\ PipelineBOff /\ BatchOff
    /\ CommentsOff /\ BoundedCacheOff /\ RecoveryOff
    /\ \E env \in PersistEnvs : qe = [QuantIdle EXCEPT !.env = env]

QuantNext ==
    \/ \E post_id \in MappingPostIds, clusters \in 0..MaxMappedClusters,
          assignments \in 0..MaxAssignments :
            StartMapping(post_id, clusters, assignments)
    \/ SkipPersistence
    \/ ImportFails
    \/ \E up \in BOOLEAN : UpsertClusters(up)
    \/ \E up \in BOOLEAN : ApplyAssignments(up)
    \/ ReturnMapping

QuantSpec == QuantInit /\ [][QuantNext]_vars

(* ------------------------------------------------------------ properties *)
Processing(w) == wk[w].item /= NoItem /\ wk[w].pc \notin {"top", "done", "dead", "off"}

(* the worker holds the item it claimed and has not yet called             *)
(* complete_job_item or fail_job_item for it                                *)
Holds(w) == Processing(w) /\ wk[w].calls.complete + wk[w].calls.fail = 0

BridgeProcessing ==
    br.pc \in {"st_fetch", "st_analyst", "run", "st_store", "complete", "bump", "exc",
               "exc_bump", "fin"}

RefHasAnalysis(ref) ==
    ref.kind = "post" /\ ref.id \in DOMAIN posts /\ HasAnalysis(posts[ref.id])

SummaryNow == get_job_summary(job, items, now, TRUE)

(* C1: in every reachable state the job header counters satisfy            *)
(* processed_count = success_count + failed_count and                       *)
(* processed_count <= total_count, for the counters bumped by the two       *)
(* workers and for those written at the end of a pipeline-B run.            *)
C1_CountersConsistent ==
    /\ job.processed_count = job.success_count + job.failed_count
    /\ job.processed_count <= job.total_count

(* C2: an item has status completed only if the post named by its          *)
(* result_post_id exists and has analysis_json or full_report, on every     *)
(* path that calls complete_item (pipeline-A worker, mock path, bridge).    *)
C2_CompletedHasAnalysis ==
    \A i \in DOMAIN items :
        items[i].status = "completed" => RefHasAnalysis(items[i].result_post_id)

(* C3: no item is processed by two workers at the same time: while one     *)
(* worker holds an item it claimed and has not yet called complete or fail  *)
(* for it, no other worker holds the same item, however long the run takes. *)
C3_SingleLessee ==
    \A w1, w2 \in Workers :
        (w1 /= w2 /\ Holds(w1) /\ Holds(w2)) => wk[w1].item /= wk[w2].item

(* C4: for every claimed item the worker calls exactly one of              *)
(* complete_job_item and fail_job_item and then bump_job_counters exactly   *)
(* once with the matching flag, on every path through the loop, also when   *)
(* an RPC raises. Checked when the worker is done with the item.            *)
C4_ExactlyOnceAccounting ==
    \A w \in Workers :
        (wk[w].item /= NoItem /\ wk[w].pc \in {"fin", "dead"}) =>
            /\ wk[w].calls.complete + wk[w].calls.fail = 1
            /\ wk[w].calls.bump_success = wk[w].calls.complete
            /\ wk[w].calls.bump_failed = wk[w].calls.fail

(* C5: an item is completed only if the analyst step of the same run       *)
(* succeeded; when generate_commercial_report fails during the run the item *)
(* ends failed, whatever an earlier run left in the post row.               *)
C5_CompletedOnlyAfterAnalyst ==
    /\ \A w \in Workers :
           (IsA /\ wk[w].calls.complete > 0) => wk[w].analyst = "ok"
    /\ br.calls.complete > 0 => br.analyst = "ok"

(* C6: a failing item never stops the job: no worker leaves the loop while *)
(* an item is still pending; the job status is failed only once             *)
(* processed_count >= total_count and failed_count > 0, and completed only  *)
(* once processed_count >= total_count and failed_count = 0.                *)
C6_StatusOnlyWhenDone ==
    /\ \A w \in Workers :
           wk[w].pc = "done" => \A i \in DOMAIN items : items[i].status /= "pending"
    /\ job.status = "failed" =>
           job.processed_count >= job.total_count /\ job.failed_count > 0
    /\ job.status = "completed" =>
           job.processed_count >= job.total_count /\ job.failed_count = 0

(* C7: in a healthy pipeline-A job every item is eventually completed and  *)
(* stays so, the job is finalized as completed, and for a single-URL job    *)
(* the summary settles on completed with processed 1, success 1, failed 0.  *)
C7_Settled ==
    /\ \A i \in DOMAIN items : items[i].status = "completed"
    /\ job.status = "completed" /\ job.finished
    /\ job.total_count = 1 =>
           /\ SummaryNow.status = "completed"
           /\ SummaryNow.processed_count = 1
           /\ SummaryNow.success_count = 1
           /\ SummaryNow.failed_count = 0

C7_HealthyJobCompletes == <>[]C7_Settled

C7_Witness ==
    /\ job.total_count = 1
    /\ C7_Settled
    /\ \A w \in Workers : wk[w].pc = "done"

(* C8: while a worker of run_worker_mock processes a claimed item the       *)
(* job's last_heartbeat_at is at most 4 s old, and while some worker or     *)
(* the bridge processes an item the summary never reports stale.            *)
C8_NeverStaleWhileProcessing ==
    /\ \A w \in Workers :
           Processing(w) => /\ job.last_heartbeat_at /= NoTime
                            /\ now - job.last_heartbeat_at <= HeartbeatInterval
    /\ ((\E w \in Workers : Processing(w)) \/ BridgeProcessing)
           => SummaryNow.status /= "stale"

C10_DegradedNotMissing ==
    (rd.kind /= "none" /\ ~rd.up /\ ~rd.cached)
        => /\ rd.http = 200
           /\ rd.degraded
           /\ rd.kind \in {"list", "items"} => rd.payload = <<>>

(* every call of func() but the last one of an invocation raised an error  *)
(* of the allowlist, and there are at most `retries` calls                  *)
RetryLogOk(log) ==
    /\ Len(log) <= Retries
    /\ \A k \in 1..(Len(log) - 1) : log[k] \in RetryAllowlist

RetryResultOk(log, result) ==
    /\ result = "raise" =>
            Len(log) >= 1 /\ log[Len(log)] \notin RetryAllowlist \cup {"ok"}
    /\ result = "data" => Len(log) >= 1 /\ log[Len(log)] = "ok"
    /\ result = "None" <=>
            Len(log) = Retries /\ \A k \in 1..Len(log) : log[k] \in RetryAllowlist

(* C11: _retry_db calls the store operation at most 3 times per            *)
(* invocation; it calls again only after an error of the allowlist; any    *)
(* other error is re-raised at its first occurrence with no further call;  *)
(* after 3 errors of the allowlist it returns None, which _rpc,            *)
(* _table_update and _table_insert turn into a RuntimeError and            *)
(* _cached_call into a degraded answer.                                     *)
C11_RetryContract ==
    /\ RetryLogOk(rt.log)
    /\ RetryLogOk(rt.last.log)
    /\ rt.pc \in {"returned", "raised"} => RetryResultOk(rt.log, rt.result)
    /\ rt.last.helper /= "none" => RetryResultOk(rt.last.log, rt.last.result)
    /\ rt.pc = "call" => Len(rt.log) = rt.i /\ rt.i < Retries
    /\ rt.last.result = "None" =>
        /\ rt.last.slept = BaseSleepTenths * 7
        /\ rt.last.helper \in {"rpc", "table_update", "table_insert"} =>
                rt.last.outcome = "RuntimeError"
        /\ rt.last.helper = "cached_call" =>
                rt.last.outcome \in {"stale, degraded", "[], degraded"}
    /\ rt.last.result = "raise" => rt.last.outcome = "raise"

(* an _rpc call whose three attempts all met a read timeout *)
C11_Witness ==
    /\ rt.last.helper = "rpc"
    /\ rt.last.log = <<"httpx.ReadTimeout", "httpx.ReadTimeout", "httpx.ReadTimeout">>
    /\ rt.last.outcome = "RuntimeError"

(* the requests on the shared store client that have not ended yet *)
InFlight == {a \in LockAgents : lk.pc[a] \in {"sent", "cb_sent", "thread_sent"}}

(* C12: at any time at most one request is in flight on the shared store   *)
(* client, and whoever has a request in flight holds the process-wide lock *)
C12_OneRequestInFlight ==
    /\ Cardinality(InFlight) <= 1
    /\ \A a \in InFlight : lk.holder = a

StageOrder == <<"init", "fetch", "vision", "analyst", "store", "completed">>

StageRank(stage) == CHOOSE k \in 1..Len(StageOrder) : StageOrder[k] = stage

InStageOrder(stage) == \E k \in 1..Len(StageOrder) : StageOrder[k] = stage

(* C13: the stage written to an item's row only moves forward in the order *)
(* init, fetch, vision, analyst, store, completed, or to failed; no write  *)
(* moves it to an earlier stage.                                            *)
C13_StageMonotonic ==
    [][\A i \in DOMAIN items :
            (i \in DOMAIN items' /\ items'[i].stage /= items[i].stage)
            => \/ items'[i].stage = "failed"
               \/ /\ InStageOrder(items[i].stage)
                  /\ InStageOrder(items'[i].stage)
                  /\ StageRank(items'[i].stage) > StageRank(items[i].stage)]_vars

(* C14: every job item has a status among pending, processing, completed,  *)
(* failed and a stage among init, fetch, vision, analyst, store,           *)
(* completed, failed.                                                       *)
C14_StatusAndStageDomains ==
    \A i \in DOMAIN items :
        /\ items[i].status \in {"pending", "processing", "completed", "failed"}
        /\ items[i].stage \in {"init", "fetch", "vision", "analyst", "store",
                               "completed", "failed"}

(* C15: an item of pipeline A is in stage vision only if the post its      *)
(* runner fetched has at least one image.                                   *)
C15_VisionOnlyWithImages ==
    \A w \in Workers :
        (/\ IsA
         /\ wk[w].pc = "r_analyst"
         /\ last_stage_by_item[wk[w].item] = "vision"
         /\ items[wk[w].item].stage = "vision")
        => wk[w].images

(* the strings of input_config in the order url, target, targets[],        *)
(* lines[], keywords[], as they were given                                  *)
GivenOf(val) ==
    IF val.kind = "str" THEN <<val.s>>
    ELSE IF val.kind = "list"
    THEN LET idx == {k \in 1..Len(val.l) : val.l[k].kind = "str"}
             nth(n) == CHOOSE k \in idx : Cardinality({j \in idx : j < k}) = n - 1
         IN [n \in 1..Cardinality(idx) |-> val.l[nth(n)].s]
    ELSE <<>>

Given(config) ==
    GivenOf(config.url) \o GivenOf(config.target) \o GivenOf(config.targets)
        \o GivenOf(config.lines) \o GivenOf(config.keywords)

Blanks(n) == [k \in 1..n |-> " "]

(* t is s without its leading and trailing blanks *)
IsTrimOf(t, s) ==
    /\ t /= <<>> => t[1] /= " " /\ t[Len(t)] /= " "
    /\ \E a, b \in 0..Len(s) : s = Blanks(a) \o t \o Blanks(b)

(* k is the first place in the given strings whose trimmed value is t *)
FirstGiven(given, t) ==
    CHOOSE k \in 1..Len(given) :
        /\ IsTrimOf(t, given[k])
        /\ \A j \in 1..(k - 1) : ~IsTrimOf(t, given[j])

TargetsAsSpecified(config, targets) ==
    LET given == Given(config)
        kept == {k \in 1..Len(given) : ~IsTrimOf(<<>>, given[k])}
    IN IF kept = {}
       THEN /\ Len(targets) = MockCount
            /\ \A a, b \in 1..Len(targets) : a /= b => targets[a] /= targets[b]
       ELSE /\ \A k \in kept : \E a \in 1..Len(targets) : IsTrimOf(targets[a], given[k])
            /\ \A a \in 1..Len(targets) :
                    /\ targets[a] /= <<>>
                    /\ \E k \in kept : IsTrimOf(targets[a], given[k])
            /\ \A a, b \in 1..Len(targets) :
                    a < b => FirstGiven(given, targets[a]) < FirstGiven(given, targets[b])

(* the part of C16 about the inserted items *)
DiscoveryItemsAsSpecified ==
    dsc.pc = "returned" =>
        /\ TargetsAsSpecified(dsc.config,
                              [k \in 1..Len(dsc.inserted) |-> dsc.inserted[k].target_id])
        /\ \A k \in 1..Len(dsc.inserted) :
                dsc.inserted[k].status = "pending" /\ dsc.inserted[k].stage = "init"
        /\ dsc.ret = Len(dsc.inserted)

(* C16: start_discovery collects the targets in the order url, target,     *)
(* targets[], lines[], keywords[], trimmed, without empty strings and      *)
(* later duplicates, 5 mock targets when none remain; it inserts one       *)
(* pending item in stage init per target; and whenever it returns normally *)
(* the job has total_count equal to the number of inserted items and       *)
(* status processing.                                                       *)
C16_DiscoveryContract ==
    /\ DiscoveryItemsAsSpecified
    /\ dsc.pc = "returned" =>
            dsc.total_count = Len(dsc.inserted) /\ dsc.status = "processing"

(* the enricher has computed a match for the post it works on *)
Decided == en.pc \in {"patch", "upsert", "increment", "complete"}

StatusForward(from, to) ==
    \/ from = to
    \/ to = "failed"
    \/ from \in {"pending", "provisional"} /\ to \in {"matched", "minted", "active"}
    \/ from \in {"matched", "minted"} /\ to = "active"

(* C18: the status of a narrative_phenomena row only moves forward along   *)
(* pending -> (matched | minted) -> active, or to failed; no operation     *)
(* moves a row from active back to matched or minted, or between matched   *)
(* and minted.                                                              *)
C18_StatusForwardOnly ==
    [][\A id \in PhenomenonIds :
            registry[id].exists => StatusForward(registry[id].status, registry'[id].status)]_vars

(* C19: when two posts with identical fingerprints have been enriched one  *)
(* after the other, both carry the same phenomenon_id, the second with     *)
(* status matched, and the occurrence_count of that phenomenon has grown   *)
(* by exactly 2 (from 0); occurrence_count never decreases.                 *)
C19_SameFingerprintTwice ==
    /\ [](\A p, q \in DOMAIN eposts :
            (/\ p /= q
             /\ eposts[p].fingerprint = eposts[q].fingerprint
             /\ en.order = <<p, q>>
             /\ en.pc = "idle"
             /\ eposts[p].enrichment_status = "completed"
             /\ eposts[q].enrichment_status = "completed")
            => /\ eposts[p].phenomenon_id = eposts[q].phenomenon_id
               /\ eposts[q].phenomenon_status = "matched"
               /\ eposts[q].phenomenon_id \in PhenomenonIds
               /\ registry[eposts[q].phenomenon_id].occurrence_count = 2)
    /\ [][\A id \in PhenomenonIds :
            registry'[id].occurrence_count >= registry[id].occurrence_count]_vars

(* C20: if the increment_occurrence RPC failed in the enrichment run of a  *)
(* post, that run is a failure: once it is over the post's                 *)
(* enrichment_status is failed, not completed, and enrichment_last_error   *)
(* is set.                                                                  *)
C20_IncrementFailureFailsRun ==
    \A p \in DOMAIN eposts :
        (eposts[p].increment_failed /\ ~(en.post = p /\ en.pc /= "idle"))
        => /\ eposts[p].enrichment_status = "failed"
           /\ eposts[p].enrichment_last_error

(* C21: if the embedding of the fingerprint does not have dimension 768,   *)
(* the enrichment step aborts: the run goes to the crash handler without   *)
(* a minted id, without patching the post and without a registry upsert,   *)
(* and once it is over the post's enrichment_status is failed.              *)
C21_DimMismatchAborts ==
    \A p \in DOMAIN eposts :
        eposts[p].dim_mismatch
        => IF en.post = p /\ en.pc /= "idle"
           THEN en.pc = "crashed" /\ en.match.status = "none"
           ELSE eposts[p].enrichment_status = "failed"

(* C22: a post that holds a phenomenon id with status matched, minted or   *)
(* active keeps its phenomenon_id and phenomenon_status through every      *)
(* later enrichment run; the enricher patches these fields only when the   *)
(* status is pending, failed or provisional or the id is unset.             *)
C22_FinalizedPostUntouched ==
    [][\A p \in DOMAIN eposts :
            (/\ eposts[p].phenomenon_id /= NoPhenomenon
             /\ eposts[p].phenomenon_status \in {"matched", "minted", "active"})
            => /\ eposts'[p].phenomenon_id = eposts[p].phenomenon_id
               /\ eposts'[p].phenomenon_status = eposts[p].phenomenon_status]_vars

(* C23: promote sets a phenomenon's status to active only when its current *)
(* status is provisional; for any other current status, a missing or empty *)
(* one included, it answers 409 and leaves the row unchanged; for an       *)
(* unknown id it answers 404. A 500 for a failed store call changes        *)
(* nothing.                                                                 *)
C23_PromoteOnlyProvisional ==
    promo.pc = "done" =>
        LET row == promo.before
            now_row == registry[promo.id]
        IN /\ promo.code /= 200 => now_row = row
           /\ promo.code = 200 => /\ row.exists /\ lower(row.status) = "provisional"
                                  /\ now_row = [row EXCEPT !.status = "active"]
           /\ ~row.exists => promo.code \in {404, 500}
           /\ (row.exists /\ lower(row.status) /= "provisional") => promo.code \in {409, 500}

(* C24: build_evidence_bundle gives the same fingerprint and case_id for   *)
(* any two cluster_summary maps that hold the same clusters under a        *)
(* different key insertion order, for all cluster contents.                 *)
C24_KeyPermutationInvariant ==
    \A i, j \in DOMAIN fp.bundles :
        /\ fp.bundles[i].fingerprint = fp.bundles[j].fingerprint
        /\ fp.bundles[i].case_id = fp.bundles[j].case_id

(* the reactions of the call just made, against its inputs *)
ReactionsAsSpecified(R, cluster_summary, comments) ==
    LET oc == order_clusters(cluster_summary)
        n == Len(cluster_summary)
        norm(x) == normalize_text(x.text, 0)
        IsHead(c, t) ==
            \E i \in DOMAIN c.samples :
                /\ norm(c.samples[i]) = t
                /\ \A j \in DOMAIN c.samples :
                        \/ c.samples[j].likes < c.samples[i].likes
                        \/ /\ c.samples[j].likes = c.samples[i].likes
                           /\ TextLeq(norm(c.samples[j]), t)
        HeadTexts == {t \in {norm(x) : x \in UNION {SeqRange(c.samples) : c \in SeqRange(oc)}} :
                        t /= <<>> /\ \E k \in DOMAIN oc : IsHead(oc[k], t)}
        FirstWith(t) == Min({k \in DOMAIN oc : IsHead(oc[k], t)})
        h == Cardinality(HeadTexts)
        BestLikes(t) == CHOOSE l \in {c.likes : c \in SeqRange(comments)} :
                            /\ \E c \in SeqRange(comments) : norm(c) = t /\ c.likes = l
                            /\ \A c \in SeqRange(comments) : norm(c) = t => c.likes <= l
        Precedes(t, u) ==
            \/ BestLikes(t) > BestLikes(u)
            \/ BestLikes(t) = BestLikes(u) /\ TextLess(t, u)
    IN /\ \A i, j \in DOMAIN oc : i < j =>
                \/ oc[i].size > oc[j].size
                \/ oc[i].size = oc[j].size /\ DigestLeq(oc[i].sig, oc[j].sig)
       /\ Len(R) <= n + TOP_K_GLOBAL_REACTIONS
       /\ \A i, j \in DOMAIN R : i /= j => R[i] /= R[j]
       /\ Len(R) >= h
       /\ {R[i] : i \in 1..h} = HeadTexts
       /\ \A i, j \in 1..h : i < j => FirstWith(R[i]) < FirstWith(R[j])
       /\ \A i \in (h + 1)..Len(R) :
                /\ R[i] /= <<>>
                /\ \E c \in SeqRange(comments) : norm(c) = R[i]
       /\ \A i, j \in (h + 1)..Len(R) : i < j => Precedes(R[i], R[j])
       /\ \A c \in SeqRange(comments) :
                (norm(c) /= <<>> /\ norm(c) \notin SeqRange(R))
                => /\ Len(R) = n + TOP_K_GLOBAL_REACTIONS
                   /\ \A i \in (h + 1)..Len(R) : Precedes(R[i], norm(c))

Carried(a, b) == {v.n : v \in {x \in {a, b} : ~x.none}}

(* C26: for every post row and LLM payload, the built analysis has         *)
(* metrics.likes, metrics.views and metrics.replies equal to the row's     *)
(* crawler values whenever the row carries them, the value 0 included, so  *)
(* an LLM number is used only for a metric the row does not carry; after   *)
(* protect_core_fields author, text and timestamp equal the row's values   *)
(* when the row has them.                                                   *)
C26_CrawlerFieldsWin ==
    aj.pc \in {"protected", "tagged", "validated"} =>
        LET row == aj.post_data
            post == aj.analysis.post
            Kept(metric, a, b) ==
                Carried(a, b) /= {} => ~metric.none /\ metric.n \in Carried(a, b)
        IN /\ Kept(post.metrics.likes, row.like_count, row.likes)
           /\ Kept(post.metrics.views, row.view_count, row.impression_count)
           /\ Kept(post.metrics.replies, row.reply_count, row.comment_count)
           /\ truthy(row.author) => post.author = row.author
           /\ truthy(row.post_text) => post.text = row.post_text
           /\ (truthy(row.created_at) \/ truthy(row.captured_at))
                => truthy(post.timestamp) /\ post.timestamp \in {row.created_at, row.captured_at}

(* C27: validate_analysis_json returns valid with no missing keys for      *)
(* every analysis with a supported version, post.post_id, post.text,       *)
(* post.timestamp and a phenomenon id, name or status pending, when the    *)
(* analysis has no evidence block; with an evidence block it asks for at   *)
(* least 2 references.                                                      *)
C27_ValidWithoutEvidence ==
    aj.pc = "validated" =>
        LET a == aj.analysis
            complete ==
                /\ truthy(a.post.post_id) /\ truthy(a.post.text) /\ truthy(a.post.timestamp)
                /\ truthy(a.phenomenon.id) \/ truthy(a.phenomenon.name)
                   \/ a.phenomenon.status = "pending"
        IN /\ (complete /\ ~aj.evidence.present)
                => aj.result.valid /\ aj.result.missing = <<>>
           /\ (complete /\ aj.evidence.present)
                => (aj.result.valid <=> aj.evidence.refs >= 2)
           /\ ~complete => ~aj.result.valid

(* C28: with vision mode off no V1 or V2 call is made for any post; with   *)
(* mode auto V1 is called only when the post has images and the gate score *)
(* reaches the threshold; with mode force V1 is called whenever the post   *)
(* has images (with a source the worker can fetch); in the pipeline-A      *)
(* runner and in the pipeline-B runner.                                     *)
C28_VisionModes ==
    vis.pc /= "off" =>
        /\ vis.vision_mode = "off" => vis.v1_calls = 0 /\ vis.v2_calls = 0
        /\ (vis.vision_mode = "auto" /\ vis.v1_calls > 0)
            => /\ vis.images_count > 0
               /\ evaluate(vis.images_count, vis.text_len, vis.comment_lens, "auto",
                           vis.metrics).score >= Threshold
        /\ (vis.vision_mode = "force" /\ vis.pc = "done" /\ vis.vision_error = "none"
            /\ vis.images_count > 0 /\ vis.src_http)
            => vis.v1_calls = 1

(* the same statement for the pipeline-B runner alone *)
PipelineBHonoursModes == vis.pc /= "off" /\ vis.runner = "B" => C28_VisionModes

(* C29: a pipeline-B run with max_posts = 5 and policy skip_if_exists      *)
(* whose discovery yields 7 distinct candidate URLs of which 2 exist in    *)
(* the store reports discovery_count = 7, selected_count = 5 and           *)
(* skipped_exists = 2, and success = 5, failed = 0 when every scheduled    *)
(* URL succeeds.                                                            *)
C29_BatchSummary ==
    ( /\ pb.pc = "done"
      /\ pb.max_posts = 5 /\ pb.reprocess_policy = "skip_if_exists" /\ pb.exclude_existing
      /\ Len(pb.candidates) = 7 /\ Cardinality(SeqRange(pb.candidates)) = 7
      /\ Cardinality(SeqRange(pb.candidates) \cap pb.existing) = 2
      /\ pb.fail = 0 )
    => /\ pb.summary.discovery_count = 7
       /\ pb.summary.selected_count = 5
       /\ pb.summary.skipped_exists = 2
       /\ pb.summary.success_count = 5
       /\ pb.summary.fail_count = 0

(* what the code does report in that run: every kept URL is either         *)
(* scheduled or skipped, so selected_count + skipped_exists = 5             *)
BatchSummaryWithinCut ==
    pb.pc = "done" =>
        /\ pb.summary.selected_count + pb.summary.skipped_exists + pb.summary.skipped_policy
            <= clamp_max_posts(pb.max_posts)
        /\ pb.summary.success_count + pb.summary.fail_count = pb.summary.selected_count
        /\ pb.summary.discovery_count = Len(pb.candidates)

(* the URLs dispatched in the current run, and those that met a rate limit *)
DispatchedUrls == {batch.dispatched[k].url : k \in DOMAIN batch.dispatched}
RateLimitedUrls ==
    {batch.dispatched[k].url :
        k \in {j \in DOMAIN batch.dispatched : batch.dispatched[j].outcome = "rate_limit"}}

(* a run that ended with 3 rate-limit failures in a row *)
RateLimitStopped ==
    /\ batch.pc = "idle" /\ batch.run >= 1
    /\ batch.suspected_rl >= RateLimitTrip

(* C30: after 3 consecutive URLs failed with a rate-limit error no         *)
(* remaining URL is dispatched in that run; the saved state marks the      *)
(* rate-limited URLs as queued with their attempts incremented, leaves the *)
(* undispatched URLs as they were, and lets the next run dispatch them.    *)
C30_RateLimitBreaker ==
    batch.pc /= "off" =>
        /\ \A k \in DOMAIN batch.dispatched :
                batch.dispatched[k].suspected_rl < RateLimitTrip
        /\ RateLimitStopped =>
            /\ \A i \in RateLimitedUrls :
                    /\ batch.urls_state[i].status = STATUS_QUEUED
                    /\ batch.urls_state[i].attempts = batch.before[i].attempts + 1
                    /\ ~skips(batch.urls_state[i], batch.max_attempts,
                              batch.reprocess_policy)
            /\ \A i \in DOMAIN batch.urls_state \ DispatchedUrls :
                    batch.urls_state[i] = batch.before[i]

(* what the code does guarantee: the breaker stops the run, attempts are   *)
(* counted, undispatched URLs are untouched; a rate-limited URL is saved   *)
(* as failed                                                                *)
BreakerStopsRun ==
    batch.pc /= "off" =>
        /\ \A k \in DOMAIN batch.dispatched :
                batch.dispatched[k].suspected_rl < RateLimitTrip
        /\ RateLimitStopped =>
            /\ \A i \in RateLimitedUrls :
                    /\ batch.urls_state[i].status = STATUS_FAILED
                    /\ batch.urls_state[i].attempts = batch.before[i].attempts + 1
                    /\ batch.urls_state[i].attempts < batch.max_attempts
                        => ~skips(batch.urls_state[i], batch.max_attempts,
                                  batch.reprocess_policy)
            /\ \A i \in DOMAIN batch.urls_state \ DispatchedUrls :
                    batch.urls_state[i] = batch.before[i]

(* C31: for a fixed (post_id, author, normalized text) the comment id      *)
(* written by sync_comments_to_table is the same on every ingest, with or  *)
(* without a native source_comment_id, in any order of ingests; no second  *)
(* row is created for the same comment.                                     *)
C31_CommentIdStable ==
    cm.pc = "ready" =>
        /\ \A w1, w2 \in cm.written : w1.key = w2.key => w1.id = w2.id
        /\ \A r1, r2 \in cm.table : CommentKey(r1) = CommentKey(r2) => r1.id = r2.id

(* every native id was always seen on the same (author, normalized text) *)
NativeIdsKeepTheirComment ==
    \A w1, w2 \in cm.written :
        (truthy(w1.source) /\ w1.source = w2.source) => w1.key = w2.key

(* what the code does guarantee: the id is stable as long as no native id  *)
(* moves to another author or text                                          *)
CommentIdStableWithoutEdits ==
    (cm.pc = "ready" /\ NativeIdsKeepTheirComment) => C31_CommentIdStable

(* C32: the read cache holds at most 256 keys after any sequence of cached *)
(* reads and prefix invalidations; a new key stored into a full cache      *)
(* evicts exactly one entry, one with the oldest write time, and a store   *)
(* under an existing key evicts nothing.                                    *)
C32_CacheBounded ==
    cs.pc = "serving" =>
        \E before \in {StoreKeys(cs.before)}, after \in {StoreKeys(cs.store)} :
        \E evicted \in {before \ after} :
            /\ Len(cs.store) <= CACHE_MAX_KEYS
            /\ Cardinality(after) = Len(cs.store)
            /\ cs.last.op = "set" =>
                /\ cs.last.key \in after
                /\ IF cs.last.key \notin before /\ Len(cs.before) = CACHE_MAX_KEYS
                   THEN /\ Cardinality(evicted) = 1
                        /\ \E i \in DOMAIN cs.before :
                            /\ cs.before[i].key \in evicted
                            /\ \A j \in DOMAIN cs.before :
                                    cs.before[i].time <= cs.before[j].time
                   ELSE evicted = {}
            /\ cs.last.op = "read" => cs.store = cs.before

(* a new key was stored into the full cache and the oldest entry, which is *)
(* not the first one inserted, went out                                     *)
C32_Witness ==
    /\ cs.pc = "serving" /\ cs.last.op = "set"
    /\ Len(cs.before) = CACHE_MAX_KEYS /\ Len(cs.store) = CACHE_MAX_KEYS
    /\ cs.last.key \notin StoreKeys(cs.before)
    /\ CacheKey("job_items:", 1) \in StoreKeys(cs.store)
    /\ CacheKey("job_items:", 2) \notin StoreKeys(cs.store)

(* C33: when the fetch step yields no post id the worker performs post-id  *)
(* recovery against the store, at most 3 rounds; the item continues with   *)
(* the recovered id if a round finds a row, and it is failed with          *)
(* POST_ID_NOT_FOUND only after all rounds found no row.                   *)
C33_PostIdRecovery ==
    (rec.pc = "done" /\ rec.fetch = "no_id") =>
        /\ rec.rounds \in 1..RecoverAttempts
        /\ rec.post_id = "" => rec.error_code = "POST_ID_NOT_FOUND" /\ rec.rounds = RecoverAttempts
        /\ rec.status = "failed" => rec.error_code \in {"POST_ID_NOT_FOUND", "ANALYSIS_MISSING"}

(* what the code does: an item whose fetch gave no post id fails with      *)
(* RUNNER_ERROR and no lookup; an item is never failed with                *)
(* POST_ID_NOT_FOUND                                                        *)
NoIdIsRunnerError ==
    rec.pc = "done" =>
        /\ rec.fetch = "no_id" => rec.error_code = "RUNNER_ERROR" /\ rec.rounds = 0
        /\ rec.error_code /= "POST_ID_NOT_FOUND"

(* C34: a post's enrichment_status only moves null -> processing ->        *)
(* completed or failed: submit has set processing when match-or-mint       *)
(* starts, a run that started ends with the post completed or failed, and  *)
(* a run that ends failed increases enrichment_retry_count by exactly 1.   *)
C34_EnrichmentStatus ==
    [][/\ \A p \in DOMAIN eposts :
            eposts'[p].enrichment_status /= eposts[p].enrichment_status =>
                <<eposts[p].enrichment_status, eposts'[p].enrichment_status>> \in
                    {<<"null", "processing">>, <<"processing", "completed">>,
                     <<"processing", "failed">>}
       /\ en'.pc = "match" => eposts'[en'.post].enrichment_status = "processing"
       /\ (en.pc /= "idle" /\ en'.pc = "idle") =>
            eposts'[en.post].enrichment_status \in {"completed", "failed"}
       /\ (en.pc = "crashed" /\ en'.pc = "idle") =>
            eposts'[en.post].enrichment_retry_count =
                eposts[en.post].enrichment_retry_count + 1]_vars

(* what the code does: the retry count moves only in the handler of        *)
(* _run_safe, by one or not at all, and a status is written only by the    *)
(* step that owns it                                                        *)
EnrichmentWritesBestEffort ==
    [][\A p \in DOMAIN eposts :
        /\ eposts'[p].enrichment_retry_count /= eposts[p].enrichment_retry_count =>
            /\ en.pc = "crashed" /\ en.post = p
            /\ eposts'[p].enrichment_retry_count = eposts[p].enrichment_retry_count + 1
        /\ eposts'[p].enrichment_status /= eposts[p].enrichment_status =>
            \/ en.pc = "idle" /\ eposts'[p].enrichment_status = "processing"
            \/ en.pc = "complete" /\ en.post = p /\ eposts'[p].enrichment_status = "completed"
            \/ en.pc = "crashed" /\ en.post = p /\ eposts'[p].enrichment_status = "failed"]_vars

(* C35: a failure in the vision stage (gate evaluation, image download or  *)
(* soft-block, V1 or V2 call, vision write-back) never fails the item: the *)
(* runner still enters the analyst stage, and the item completes when the  *)
(* analyst succeeds.                                                        *)
VisionFailed == vis.vision_error /= "none" \/ vis.v1_error \/ vis.v2_error

C36_PersistenceReported ==
    qe.pc /= "off" =>
        /\ ~qe.raised
        /\ qe.pc \in {"assign", "returned"} /\ (qe.upsert_failed \/ qe.import_failed) =>
            ~qe.persistence.clusters.ok /\ qe.persistence.clusters.error
        /\ qe.pc = "returned" /\ (qe.assign_failed \/ qe.import_failed) =>
            ~qe.persistence.assignments.ok /\ qe.persistence.assignments.error
        /\ \A i \in DOMAIN qe.calls :
            qe.calls[i].rpc = "set_comment_cluster_assignments" =>
                /\ qe.env \notin {"unset", "0"}
                /\ i > 1
                /\ qe.calls[i - 1] = [rpc |-> "upsert_comment_clusters",
                                      post |-> qe.calls[i].post]

(* the upsert failed, the assignments were still written for the same post *)
(* and failed too, and the call returned with both errors reported          *)
C36_Witness ==
    /\ qe.pc = "returned" /\ qe.env = "1"
    /\ qe.upsert_failed /\ qe.assign_failed
    /\ Len(qe.calls) >= 2
    /\ qe.calls[Len(qe.calls)].rpc = "set_comment_cluster_assignments"
    /\ ~qe.persistence.clusters.ok /\ ~qe.persistence.assignments.ok

(* C37: after a pipeline-A item completes and its enrichment run           *)
(* succeeded, analysis_json.phenomenon.id and .status equal the row's      *)
(* phenomenon_id and phenomenon_status columns: the runner's analysis      *)
(* write-back after the analyst returns does not reset them to the pending *)
(* placeholder.                                                             *)
C37_PhenomenonBlockKept ==
    \A p \in DOMAIN eposts :
        (/\ eposts[p].item = "completed"
         /\ eposts[p].enrichment_status = "completed" /\ eposts[p].patched)
        => /\ eposts[p].analysis_phenomenon.id = eposts[p].phenomenon_id
           /\ eposts[p].analysis_phenomenon.status = eposts[p].phenomenon_status

(* what the code does: the block and the columns agree from the patch      *)
(* until the runner writes back; pipeline B, which writes nothing back,    *)
(* keeps them; after the write-back of pipeline A the block is the pending *)
(* placeholder                                                              *)
PhenomenonBlockUntilWriteBack ==
    \A p \in DOMAIN eposts :
        /\ (eposts[p].patched /\ eposts[p].item \in {"processing", "succeeded", "failed"})
            => /\ eposts[p].analysis_phenomenon.id = eposts[p].phenomenon_id
               /\ eposts[p].analysis_phenomenon.status = eposts[p].phenomenon_status
        /\ eposts[p].item = "completed" => eposts[p].analysis_phenomenon = build_phenomenon

(* C38: once an item is completed or failed, no later write changes its    *)
(* status or its stage: not the bridge heartbeat's touch_item(stage=...),  *)
(* not a stage callback that finishes late, not a second worker.           *)
C38_TerminalItemsFrozen ==
    [][\A i \in DOMAIN items :
        items[i].status \in {"completed", "failed"} =>
            /\ items'[i].status = items[i].status
            /\ items'[i].stage = items[i].stage]_vars

(* what the code keeps: an item that is completed or failed is never     *)
(* pending or processing again                                              *)
TerminalStaysTerminal ==
    [][\A i \in DOMAIN items :
        items[i].status \in {"completed", "failed"} =>
            items'[i].status \in {"completed", "failed"}]_vars

(* the bridge has completed its item and its heartbeat has written the     *)
(* stage analyst over it                                                    *)
HeartbeatWroteOverCompleted ==
    /\ br.item /= NoItem /\ br.hbDone
    /\ items[br.item].status = "completed" /\ items[br.item].stage = "analyst"

(* C39: whenever a job's status is completed or failed, every item of the  *)
(* job is completed or failed; for pipeline A, pipeline B and the mock     *)
(* path.                                                                    *)
C39_FinishedJobItemsTerminal ==
    job.status \in {"completed", "failed"} =>
        \A i \in DOMAIN items : items[i].status \in {"completed", "failed"}

(* the same statement for the jobs that the workers of pipeline A and of   *)
(* the mock path finalize                                                   *)
WorkerJobItemsTerminal ==
    (job.pipeline_type /= "B" /\ job.launcher = "worker") => C39_FinishedJobItemsTerminal

(* a pipeline-B job that ended completed while its item is processing *)
PipelineBJobLeavesProcessing ==
    /\ job.pipeline_type = "B" /\ job.status = "completed"
    /\ \E i \in DOMAIN items : items[i].status = "processing"

(* C40: a store write that the store applied but that reached the client   *)
(* as a transient network error is not applied a second time by the retry  *)
(* wrapper: each logical job_items insert creates its rows once and each   *)
(* bump_job_counters call increments once.                                  *)
C40_WriteAppliedOnce ==
    /\ rt.helper \in {"rpc", "table_insert"} => rt.applied <= 1
    /\ rt.last.helper \in {"rpc", "table_insert"} => rt.last.applied <= 1

(* what the code keeps: the store applies a write at most once per round   *)
(* of _retry_db, a call that returned data was applied, and a call that    *)
(* raised at its first round on an error of the store was not               *)
WriteAppliedPerRound ==
    /\ rt.applied <= Len(rt.log) /\ Len(rt.log) <= Retries
    /\ rt.last.applied <= Len(rt.last.log)
    /\ rt.last.result = "data" => rt.last.applied >= 1
    /\ rt.last.log = <<"postgrest.APIError">> => rt.last.applied = 0

(* a bump_job_counters whose first response was lost and whose second      *)
(* attempt went through: the caller got data, the counters moved twice     *)
WriteAppliedTwice ==
    /\ rt.last.helper = "rpc"
    /\ rt.last.log = <<"httpx.ReadTimeout", "ok">>
    /\ rt.last.outcome = "data" /\ rt.last.applied = 2

====
